---------------------------- MODULE Spec2Model ----------------------------
(***************************************************************************)
(* The learned-code store of IrReceiver (xingzhi-cube-1.54tft-wifi board,  *)
(* main/boards/xingzhi-cube-1.54tft-wifi/ir_receiver.cc) over the NVS      *)
(* namespace "ir_codes".                                                   *)
(*                                                                         *)
(* A std::string is a sequence of one-character strings.  The namespace is *)
(* a function from the keys present to their values.  Every store          *)
(* operation of the class is an operator from the namespace (and the       *)
(* call's arguments) to the namespace it leaves and the value it returns;  *)
(* the actions apply these operators to inputs drawn from small sets.      *)
(***************************************************************************)
EXTENDS Integers, Sequences, FiniteSets, TLC

\* nvs:   the namespace "ir_codes" (key -> value, for the keys present)
\* hasTx: irsend_ != nullptr (a TX pin was given to the constructor)
\* tx:    the driver calls made on irsend_ by the most recent call
\* ret:   the most recent call and the value it returned
\* steps: the number of calls made
VARIABLES nvs, hasTx, tx, ret, steps

\* The learning session of the board (xingzhi-cube-1.54tft-wifi.cc):
\* ir_learning_active_: the atomic flag of the same name
\* ir_learn_semaphore_: "null" (creation failed), "empty" or "given"
\* ir_command_queue_:   the events the capture callback has queued
\* learned_command_, learned_protocol_: the members of the same names
\* receiverRunning:     ir_receiver_->IsRunning()
\* learn_command:       where the tool's caller stands, the one-second
\*                      waits left to it, and the last xSemaphoreTake
\* ir_learn_task:       where the worker stands and the event it holds
\* reply:               what learn_command returned last
\* arrived:             a signal has reached the capture callback since the
\*                      session was armed
VARIABLES ir_learning_active_, ir_learn_semaphore_, ir_command_queue_,
          learned_command_, learned_protocol_, receiverRunning,
          learn_command, ir_learn_task, reply, arrived

sessionVars ==
    <<ir_learning_active_, ir_learn_semaphore_, ir_command_queue_,
      learned_command_, learned_protocol_, receiverRunning,
      learn_command, ir_learn_task, reply, arrived>>

\* The receive task of IrReceiver and the callers of its learning mode:
\* board:            the build, "zhengchen" or "xingzhi" (each board
\*                   directory has its own ir_receiver.cc)
\* learning_mode_:   the atomic flag of the same name
\* learning_callback_, raw_learning_callback_, callback_: whether the
\*                   callback of that name is set
\* results:          the decode_results being processed
\* task:             where ProcessIrTask stands, its local is_learning, the
\*                   number of results decoded, and whether learning was
\*                   armed (disarmed) when the result was decoded and has
\*                   stayed so
\* delivered:        the callback calls made for the result
\* mcp:              where the caller of self.ir.start_learning stands
VARIABLES board, learning_mode_, learning_callback_, raw_learning_callback_,
          callback_, results, task, delivered, mcp

receiveVars ==
    <<board, learning_mode_, learning_callback_, raw_learning_callback_,
      callback_, results, task, delivered, mcp>>

\* Start and Stop of IrReceiver:
\* running_:     the atomic flag of the same name
\* task_handle_: the handle stored, 0 for nullptr
\* live:         the receive tasks created and not yet deleted
\* created:      the number of tasks created
\* run:          the call of Start or Stop in progress or made last
\* run_calls:     the number of calls of Start and Stop made
VARIABLES running_, task_handle_, live, created, run, run_calls

runVars == <<running_, task_handle_, live, created, run, run_calls>>

\* Saves made from two contexts of the zhengchen board:
\* savers: for the receive task (whose learning callback saves) and for the
\*         command context (self.ir.save_code), the position of its
\*         SaveLearnedCode, its arguments, its local code_list and the names
\*         whose save it has completed
VARIABLES savers

\* The mutex of the learning callbacks:
\* learning_callback_mutex_: "free" or the context that holds the mutex
\* lockers: the position of the receive task between its copy of the
\*          callbacks and their return, with the copies; of a call of
\*          SetLearningCallback or SetRawLearningCallback made inside the
\*          learning callback; and of such a call made in another context
VARIABLES learning_callback_mutex_, lockers

mutexVars == <<learning_callback_mutex_, lockers>>

\* The teardown of the xingzhi board:
\* shutting_down_: the atomic flag of the same name
\* destructor:     the position of ~XINGZHI_CUBE_1_54TFT_WIFI and the steps
\*                 it has made
\* members:        for ir_receiver_, ir_command_queue_ and
\*                 ir_learn_semaphore_: "live", "dangling" (the object is
\*                 deleted and the member still points to it) or "null"
\* faults:         the members the worker has used while not live
VARIABLES shutting_down_, destructor, members, faults

teardownVars == <<shutting_down_, destructor, members, faults>>

\* The LED of the board and the CircularStrip (main/led/circular_strip.cc):
\* led:             what GetLed() returns: "null", "NoLed", "SingleLed" or
\*                  "CircularStrip"
\* led_strip_:      the member of CircularStrip: "handle" or "null"
\* strip_timer_:    the periodic timer is started
\* strip_callback_: the member of the same name: "null", "Blink" or
\*                  "Breathe"
\* strip:           where a caller of a strip operation stands (the
\*                  learn_command tool, the application task) and where
\*                  the esp_timer task stands
\* led_was_enabled: the local of learn_command
\* led_calls:       the calls the running learn_command has made on the LED
\* null_handed:     the operations that have handed a null led_strip_ to
\*                  the led_strip driver
VARIABLES led, led_strip_, strip_timer_, strip_callback_, strip,
          led_was_enabled, led_calls, null_handed

stripVars ==
    <<led, led_strip_, strip_timer_, strip_callback_, strip,
      led_was_enabled, led_calls, null_handed>>

boardVars ==
    <<sessionVars, receiveVars, runVars, savers, mutexVars, teardownVars,
      stripVars>>

vars == <<nvs, hasTx, tx, ret, steps, boardVars>>

\* The session as InitializeIRReceiver leaves it, but for the semaphore.
SessionIdle ==
    /\ ir_learning_active_ = FALSE
    /\ ir_command_queue_ = << >>
    /\ learned_command_ = 0
    /\ learned_protocol_ = ""
    /\ receiverRunning = FALSE
    /\ learn_command = [pc |-> "idle", remaining |-> 0, result |-> FALSE]
    /\ ir_learn_task = [pc |-> "receive", command |-> 0, protocol |-> ""]
    /\ reply = [success |-> FALSE, error |-> "", protocol |-> ""]
    /\ arrived = FALSE

\* The receive task before the first result, learning mode off.
ReceiveIdle ==
    /\ learning_mode_ = FALSE
    /\ results = [decode_type |-> -1, value |-> 0, bits |-> 0, rawlen |-> 0]
    /\ task = [pc |-> "decode", is_learning |-> FALSE, count |-> 0,
               armed |-> FALSE, disarmed |-> FALSE]
    /\ delivered = << >>
    /\ mcp = "idle"

\* The receiver as its constructor leaves it: not running, no task.
RunIdle ==
    /\ running_ = FALSE
    /\ task_handle_ = 0
    /\ live = {}
    /\ created = 0
    /\ run = [pc |-> "idle", op |-> "IrReceiver", was_running |-> FALSE,
              handle |-> 0]
    /\ run_calls = 0

\* No save in progress or made.
SaversIdle ==
    savers = [w \in {"ir_task", "save_code"} |->
                [pc |-> "idle", name |-> << >>, value |-> 0, code_list |-> << >>,
                 saved |-> << >>]]

\* The mutex free, no callback being copied, called or set.
MutexIdle ==
    /\ learning_callback_mutex_ = "free"
    /\ lockers =
           [ir_task |-> [pc |-> "idle", callback_copy |-> "null",
                         raw_callback_copy |-> "null"],
            callback |-> [pc |-> "idle", member |-> "none", value |-> "null"],
            setter |-> [pc |-> "idle", member |-> "none", value |-> "null"]]

\* The board in use: no teardown begun, the members as
\* InitializeIRReceiver leaves them.
TeardownIdle ==
    /\ shutting_down_ = FALSE
    /\ destructor = [pc |-> "alive", made |-> << >>]
    /\ members = [ir_receiver_ |-> "live", ir_command_queue_ |-> "live",
                  ir_learn_semaphore_ |-> "live"]
    /\ faults = {}

\* A board whose GetLed() is not a strip; the strip as its constructor
\* leaves it.
StripIdle ==
    /\ led = "NoLed"
    /\ led_strip_ = "handle"
    /\ strip_timer_ = FALSE
    /\ strip_callback_ = "null"
    /\ strip = [learn_command |-> [pc |-> "none", cb |-> "null"],
                application |-> [pc |-> "none", cb |-> "null"],
                esp_timer |-> [pc |-> "idle", cb |-> "null"]]
    /\ led_was_enabled = FALSE
    /\ led_calls = << >>
    /\ null_handed = {}

BoardIdle ==
    /\ StripIdle
    /\ TeardownIdle
    /\ MutexIdle
    /\ SaversIdle
    /\ RunIdle
    /\ SessionIdle
    /\ ir_learn_semaphore_ = "empty"
    /\ ReceiveIdle
    /\ board = "xingzhi"
    /\ learning_callback_ = FALSE
    /\ raw_learning_callback_ = FALSE
    /\ callback_ = FALSE

-----------------------------------------------------------------------------
(* Bounds of the model and constants of the program.                       *)

\* Number of store calls explored from an initial namespace.
MaxSteps == 2

\* #define MAX_IR_CODES 100
MAX_IR_CODES == 100

\* const size_t max_name_length = 10;
max_name_length == 10

\* char code_key[16] in SaveLearnedCode and DeleteLearnedCode.
CODE_KEY_SIZE == 16

\* char raw_key[256], and char code_key[256] in the readers.
LONG_KEY_SIZE == 256

\* if (raw_str.length() > 3900) in SaveRawCode.
RAW_STR_LIMIT == 3900

\* if (raw_len == 0 || raw_len > 1000) in SendLearnedRawCode.
RAW_SEND_LIMIT == 1000

\* SendRawCode(raw_data, index, 38000)
RAW_FREQUENCY == 38000

\* uint16_t holds values modulo 2^16.
UINT16_MOD == 65536

\* decode_type_t UNKNOWN = -1 (IRremoteESP8266.h), the initial value of
\* "protocol" before sscanf in SendLearnedCode.
UNKNOWN == -1

-----------------------------------------------------------------------------
(* Strings.                                                                *)

Comma == ","

EmptyStr == << >>

\* std::string::substr(0, n)
Prefix(s, n) == IF Len(s) > n THEN SubSeq(s, 1, n) ELSE s

\* std::string::find(',', 0) on s, 0 for npos, else the 1-based position.
FindChar(s, c) ==
    IF \E i \in 1..Len(s) : s[i] = c
    THEN CHOOSE i \in 1..Len(s) : s[i] = c /\ \A j \in 1..(i-1) : s[j] # c
    ELSE 0

DigitChars == <<"0", "1", "2", "3", "4", "5", "6", "7", "8", "9">>

IsDigit(c) == \E d \in 1..10 : DigitChars[d] = c

DigitValue(c) == (CHOOSE d \in 1..10 : DigitChars[d] = c) - 1

\* std::to_string / printf("%llu") of a non-negative integer.
RECURSIVE UDec(_)
UDec(n) == IF n < 10 THEN <<DigitChars[n + 1]>>
           ELSE UDec(n \div 10) \o <<DigitChars[(n % 10) + 1]>>

\* printf("%d")
Dec(n) == IF n < 0 THEN <<"-">> \o UDec(-n) ELSE UDec(n)

\* The number of leading decimal digits of s from position p (1-based).
RECURSIVE DigitRun(_, _)
DigitRun(s, p) == IF p <= Len(s) /\ IsDigit(s[p]) THEN 1 + DigitRun(s, p + 1) ELSE 0

\* The value of the decimal digits s[p .. p+n-1].
RECURSIVE DigitsValue(_, _, _)
DigitsValue(s, p, n) ==
    IF n = 0 THEN 0
    ELSE DigitsValue(s, p, n - 1) * 10 + DigitValue(s[p + n - 1])


-----------------------------------------------------------------------------
(* Settings("ir_codes"): the key-value namespace.                          *)

EmptyNvs == [k \in {} |-> EmptyStr]

\* Settings::GetString(key, default_value)
GetString(s, key, default) == IF key \in DOMAIN s THEN s[key] ELSE default

\* Settings::SetString(key, value)
SetString(s, key, value) ==
    [k \in (DOMAIN s) \cup {key} |-> IF k = key THEN value ELSE s[k]]

\* Settings::EraseKey(key)
EraseKey(s, key) == [k \in (DOMAIN s) \ {key} |-> s[k]]

\* Settings::EraseAll()
EraseAll(s) == EmptyNvs

-----------------------------------------------------------------------------
(* Storage keys and record formats.                                        *)

CodePrefix == <<"c", "o", "d", "e", "_">>

RawPrefix == <<"r", "a", "w", "_">>

\* The index key "code_list".
CodeListKey == <<"c", "o", "d", "e", "_", "l", "i", "s", "t">>

\* snprintf(key, size, "<prefix>%s", name): the key, and whether
\* !(written < 0 || written >= size).
MakeKey(prefix, name, size) ==
    [ok |-> Len(prefix) + Len(name) < size, key |-> prefix \o name]

\* name.length() > max_name_length ? name.substr(0, max_name_length) : name
Truncate(name) == Prefix(name, max_name_length)

ProtocolLit == <<"{", "\"", "p", "r", "o", "t", "o", "c", "o", "l", "\"", ":">>

ValueLit == <<",", "\"", "v", "a", "l", "u", "e", "\"", ":">>

BitsLit == <<",", "\"", "b", "i", "t", "s", "\"", ":">>

CloseLit == <<"}">>

\* A format that writes the fields in another order than sscanf reads them.
FormatCodeBitsFirst(protocol, value, bits) ==
    ProtocolLit \o Dec(protocol) \o BitsLit \o Dec(bits)
        \o ValueLit \o UDec(value) \o CloseLit

\* snprintf(code_value, 128, "{\"protocol\":%d,\"value\":%llu,\"bits\":%d}", ...)
FormatCode(protocol, value, bits) ==
    ProtocolLit \o Dec(protocol) \o ValueLit \o UDec(value)
        \o BitsLit \o Dec(bits) \o CloseLit

\* Whether literal lit stands in s at position p.
MatchLit(s, p, lit) ==
    /\ p + Len(lit) - 1 <= Len(s)
    /\ \A i \in 1..Len(lit) : s[p + i - 1] = lit[i]

\* sscanf(s, "{\"protocol\":%d,\"value\":%llu,\"bits\":%hu}", ...): the number
\* of conversions made and the converted values (the variables keep their
\* initial values UNKNOWN, 0, 0 where no conversion was made).
ScanCode(s) ==
    LET none == [n |-> 0, protocol |-> UNKNOWN, value |-> 0, bits |-> 0]
        p1   == Len(ProtocolLit) + 1
        neg  == p1 <= Len(s) /\ s[p1] = "-"
        d1   == IF neg THEN p1 + 1 ELSE p1
        n1   == DigitRun(s, d1)
        prot == IF neg THEN 0 - DigitsValue(s, d1, n1) ELSE DigitsValue(s, d1, n1)
        p2   == d1 + n1
        d2   == p2 + Len(ValueLit)
        n2   == DigitRun(s, d2)
        val  == DigitsValue(s, d2, n2)
        p3   == d2 + n2
        d3   == p3 + Len(BitsLit)
        n3   == DigitRun(s, d3)
        bts  == DigitsValue(s, d3, n3) % UINT16_MOD
    IN  IF ~MatchLit(s, 1, ProtocolLit) \/ n1 = 0 THEN none
        ELSE IF ~MatchLit(s, p2, ValueLit) \/ n2 = 0
             THEN [none EXCEPT !.n = 1, !.protocol = prot]
        ELSE IF ~MatchLit(s, p3, BitsLit) \/ n3 = 0
             THEN [none EXCEPT !.n = 2, !.protocol = prot, !.value = val]
        ELSE [n |-> 3, protocol |-> prot, value |-> val, bits |-> bts]

\* The comma-separated fields of list, in order (one empty field for the
\* empty string).  The list is cut at a comma near its middle, so that the
\* depth of the recursion is logarithmic in the number of fields.
RECURSIVE Fields(_)
Fields(list) ==
    LET n   == Len(list)
        mid == (n + 1) \div 2
        c   == IF \E i \in mid..n : list[i] = Comma
               THEN CHOOSE i \in mid..n : list[i] = Comma
               ELSE CHOOSE i \in 1..n : list[i] = Comma
    IN  IF \A i \in 1..n : list[i] # Comma THEN <<list>>
        ELSE Fields(SubSeq(list, 1, c - 1)) \o Fields(SubSeq(list, c + 1, n))

\* The names the loops over code_list visit: the fields of the list, without
\* the empty field after a final comma and none for the empty list
\* (while (pos < code_list.length()) { comma_pos = code_list.find(',', pos);
\*  ... if (comma_pos == npos) break; pos = comma_pos + 1; }).
Tokens(list) ==
    LET f == Fields(list)
    IN  IF f[Len(f)] = EmptyStr THEN SubSeq(f, 1, Len(f) - 1) ELSE f

\* The strings of a sequence joined with commas.
RECURSIVE JoinNames(_)
JoinNames(names) ==
    LET n   == Len(names)
        mid == n \div 2
    IN  IF n = 0 THEN EmptyStr
        ELSE IF n = 1 THEN names[1]
        ELSE JoinNames(SubSeq(names, 1, mid)) \o <<Comma>>
                 \o JoinNames(SubSeq(names, mid + 1, n))

\* "<raw_len>:<d0>,<d1>,..." built by SaveRawCode.
JoinValues(data) == JoinNames([i \in 1..Len(data) |-> UDec(data[i])])

FormatRaw(raw_data, raw_len) ==
    UDec(raw_len) \o <<":">> \o JoinValues(SubSeq(raw_data, 1, raw_len))

-----------------------------------------------------------------------------
(* The writers of the store.                                               *)

\* Whether the list scan of SaveLearnedCode / SaveRawCode sets name_exists:
\* some visited field, cut to max_name_length, equals truncated_name.
\* names are the fields visited.
NameExists(names, truncated_name) ==
    \E i \in 1..Len(names) : Truncate(names[i]) = truncated_name

\* code_count of SaveLearnedCode: the visited fields that are not empty.
CodeCount(names) ==
    Cardinality({i \in 1..Len(names) : names[i] # EmptyStr})

\* if (!code_list.empty()) code_list += ","; code_list += truncated_name;
AppendName(code_list, truncated_name) ==
    IF code_list # EmptyStr THEN code_list \o <<Comma>> \o truncated_name
    ELSE truncated_name

\* IrReceiver::SaveLearnedCode(name, protocol, value, bits): the namespace left.
SaveLearnedCode(s, name, protocol, value, bits) ==
    LET truncated_name == Truncate(name)
        code_key  == MakeKey(CodePrefix, truncated_name, CODE_KEY_SIZE)
        s1        == SetString(s, code_key.key, FormatCode(protocol, value, bits))
        code_list == GetString(s1, CodeListKey, EmptyStr)
        names     == Tokens(code_list)
        name_exists == NameExists(names, truncated_name)
    IN  IF ~code_key.ok THEN s
        ELSE IF ~name_exists /\ CodeCount(names) >= MAX_IR_CODES THEN s1
        ELSE IF ~name_exists
             THEN SetString(s1, CodeListKey, AppendName(code_list, truncated_name))
        ELSE s1

\* IrReceiver::SaveRawCode(name, raw_data, raw_len): the namespace left.
\* raw_null stands for raw_data == nullptr.
SaveRawCode(s, name, raw_null, raw_data, raw_len) ==
    LET truncated_name == Truncate(name)
        raw_key   == MakeKey(RawPrefix, truncated_name, LONG_KEY_SIZE)
        raw_str   == FormatRaw(raw_data, raw_len)
        s1        == SetString(s, raw_key.key, raw_str)
        code_list == GetString(s1, CodeListKey, EmptyStr)
    IN  IF raw_null \/ raw_len = 0 THEN s
        ELSE IF ~raw_key.ok THEN s
        ELSE IF Len(raw_str) > RAW_STR_LIMIT THEN s
        ELSE IF ~NameExists(Tokens(code_list), truncated_name)
             THEN SetString(s1, CodeListKey, AppendName(code_list, truncated_name))
        ELSE s1

\* The names DeleteLearnedCode keeps when it rebuilds code_list: those that,
\* cut to max_name_length, differ from truncated_name, and are not empty.
KeptNames(names, truncated_name) ==
    SelectSeq(names,
              LAMBDA code_name : /\ Truncate(code_name) # truncated_name
                                 /\ code_name # EmptyStr)

\* IrReceiver::DeleteLearnedCode(name): the namespace left and the value returned.
DeleteLearnedCode(s, name) ==
    LET truncated_name == Truncate(name)
        code_key   == MakeKey(CodePrefix, truncated_name, CODE_KEY_SIZE)
        raw_key    == MakeKey(RawPrefix, truncated_name, LONG_KEY_SIZE)
        code_value == GetString(s, code_key.key, EmptyStr)
        raw_value  == IF raw_key.ok THEN GetString(s, raw_key.key, EmptyStr)
                      ELSE EmptyStr
        s1         == IF code_value # EmptyStr THEN EraseKey(s, code_key.key) ELSE s
        s2         == IF raw_value # EmptyStr /\ raw_key.ok
                      THEN EraseKey(s1, raw_key.key) ELSE s1
        code_list  == GetString(s2, CodeListKey, EmptyStr)
        names      == Tokens(code_list)
        found      == NameExists(names, truncated_name)
        new_code_list == JoinNames(KeptNames(names, truncated_name))
    IN  IF ~code_key.ok THEN [nvs |-> s, ret |-> FALSE]
        ELSE IF code_value = EmptyStr /\ raw_value = EmptyStr
             THEN [nvs |-> s, ret |-> FALSE]
        ELSE IF code_list # EmptyStr /\ found
             THEN IF new_code_list = EmptyStr
                  THEN [nvs |-> EraseKey(s2, CodeListKey), ret |-> TRUE]
                  ELSE [nvs |-> SetString(s2, CodeListKey, new_code_list), ret |-> TRUE]
        ELSE [nvs |-> s2, ret |-> TRUE]

\* A clearing that erases the index and leaves the records.
EraseIndexOnly(s) == EraseKey(s, CodeListKey)

\* IrReceiver::DeleteAllLearnedCodes(): the namespace left.
DeleteAllLearnedCodes(s) == EraseAll(s)

-----------------------------------------------------------------------------
(* The transmitter.  A transmission is the driver call made on irsend_.    *)

\* decode_type_t (IRremoteESP8266.h), the values named by SendIrCode.
RC5 == 1
RC6 == 2
NEC == 3
SONY == 4
JVC == 6
SAMSUNG == 7
WHYNTER == 8
LG == 10
DISH == 13
SHARP == 14
COOLIX == 15
DENON == 17

\* Bit counts of the fixed-length drivers sendSamsung36 and sendCoolix48.
SAMSUNG36_BITS == 36
COOLIX48_BITS == 48

ProtocolCall(driver, value, bits) ==
    [kind |-> "protocol", driver |-> driver, value |-> value, bits |-> bits]

RawCall(raw_data, raw_len, frequency) ==
    [kind |-> "raw", data |-> SubSeq(raw_data, 1, raw_len), frequency |-> frequency]

\* A switch that passes the bits argument to every encoder.
DriverCallGivenBits(protocol, value, bits) ==
    CASE protocol = SAMSUNG -> ProtocolCall("sendSamsung36", value, bits)
      [] protocol = COOLIX  -> ProtocolCall("sendCoolix48", value, bits)
      [] OTHER              -> ProtocolCall("sendNEC", value, bits)

\* The switch of SendIrCode.
DriverCall(protocol, value, bits) ==
    CASE protocol = NEC     -> ProtocolCall("sendNEC", value, bits)
      [] protocol = SONY    -> ProtocolCall("sendSony", value, bits)
      [] protocol = RC5     -> ProtocolCall("sendRC5", value, bits)
      [] protocol = RC6     -> ProtocolCall("sendRC6", value, bits)
      [] protocol = DISH    -> ProtocolCall("sendDISH", value, bits)
      [] protocol = SHARP   -> ProtocolCall("sendSharp", value, bits)
      [] protocol = JVC     -> ProtocolCall("sendJVC", value, bits)
      [] protocol = SAMSUNG -> ProtocolCall("sendSamsung36", value, SAMSUNG36_BITS)
      [] protocol = LG      -> ProtocolCall("sendLG", value, bits)
      [] protocol = WHYNTER -> ProtocolCall("sendWhynter", value, bits)
      [] protocol = COOLIX  -> ProtocolCall("sendCoolix48", value, COOLIX48_BITS)
      [] protocol = DENON   -> ProtocolCall("sendDenon", value, bits)
      [] OTHER              -> ProtocolCall("sendNEC", value, bits)

\* IrReceiver::SendIrCode(protocol, value, bits): the value returned and the
\* driver calls made.  irsend stands for irsend_ != nullptr.
SendIrCode(irsend, protocol, value, bits) ==
    IF ~irsend THEN [ret |-> FALSE, tx |-> << >>]
    ELSE [ret |-> TRUE, tx |-> <<DriverCall(protocol, value, bits)>>]

\* A raw send that does not look at irsend_.
SendRawCodeUnchecked(irsend, raw_null, raw_data, raw_len, frequency) ==
    IF raw_null \/ raw_len = 0 THEN [ret |-> FALSE, tx |-> << >>]
    ELSE [ret |-> TRUE, tx |-> <<RawCall(raw_data, raw_len, frequency)>>]

\* IrReceiver::SendRawCode(raw_data, raw_len, frequency)
SendRawCode(irsend, raw_null, raw_data, raw_len, frequency) ==
    IF ~irsend THEN [ret |-> FALSE, tx |-> << >>]
    ELSE IF raw_null \/ raw_len = 0 THEN [ret |-> FALSE, tx |-> << >>]
    ELSE [ret |-> TRUE, tx |-> <<RawCall(raw_data, raw_len, frequency)>>]

\* The fields of values_str that the parse loops visit and that are not empty.
NonEmptyFields(values_str) ==
    SelectSeq(Tokens(values_str), LAMBDA f : f # EmptyStr)

\* std::stoul(str) narrowed to uint16_t: ok is FALSE where stoul throws
\* (no leading digit).
Stoul16(str) ==
    LET n == DigitRun(str, 1)
    IN  [ok |-> n > 0, value |-> IF n > 0 THEN DigitsValue(str, 1, n) % UINT16_MOD ELSE 0]

\* The raw record SendLearnedRawCode reads for name, up to the call of
\* SendRawCode: ok is FALSE on each path that returns false before it; data
\* are the "index" values parsed into raw_data.
LoadRaw(s, name) ==
    LET failed     == [ok |-> FALSE, data |-> << >>]
        truncated_name == Truncate(name)
        raw_key    == MakeKey(RawPrefix, truncated_name, LONG_KEY_SIZE)
        raw_str    == GetString(s, raw_key.key, EmptyStr)
        colon_pos  == FindChar(raw_str, ":")
        len        == Stoul16(SubSeq(raw_str, 1, colon_pos - 1))
        raw_len    == len.value
        values_str == SubSeq(raw_str, colon_pos + 1, Len(raw_str))
        fields     == NonEmptyFields(values_str)
        taken      == IF Len(fields) > raw_len THEN SubSeq(fields, 1, raw_len) ELSE fields
        parse_error == \E i \in 1..Len(taken) : ~Stoul16(taken[i]).ok
    IN  IF ~raw_key.ok THEN failed
        ELSE IF raw_str = EmptyStr THEN failed
        ELSE IF colon_pos = 0 THEN failed
        ELSE IF ~len.ok THEN failed
        ELSE IF raw_len = 0 \/ raw_len > RAW_SEND_LIMIT THEN failed
        ELSE IF parse_error THEN failed
        ELSE [ok |-> TRUE, data |-> [i \in 1..Len(taken) |-> Stoul16(taken[i]).value]]

\* IrReceiver::SendLearnedRawCode(name)
SendLearnedRawCode(s, irsend, name) ==
    LET raw == LoadRaw(s, name)
    IN  IF ~raw.ok THEN [ret |-> FALSE, tx |-> << >>]
        ELSE SendRawCode(irsend, FALSE, raw.data, Len(raw.data), RAW_FREQUENCY)

\* A lookup that builds the key from the name as given, without cutting it
\* to max_name_length.
LoadCodeByFullName(s, name) ==
    LET code_key   == MakeKey(CodePrefix, name, LONG_KEY_SIZE)
        code_value == GetString(s, code_key.key, EmptyStr)
        parsed     == ScanCode(code_value)
    IN  IF code_key.ok /\ code_value # EmptyStr /\ parsed.n = 3
        THEN [found |-> TRUE, protocol |-> parsed.protocol,
              value |-> parsed.value, bits |-> parsed.bits]
        ELSE [found |-> FALSE, protocol |-> UNKNOWN, value |-> 0, bits |-> 0]

\* The protocol record SendLearnedCode reads for name: found is FALSE where
\* the key cannot be built, the value is empty or sscanf does not convert
\* three fields.
LoadCode(s, name) ==
    LET truncated_name == Truncate(name)
        code_key   == MakeKey(CodePrefix, truncated_name, LONG_KEY_SIZE)
        code_value == GetString(s, code_key.key, EmptyStr)
        parsed     == ScanCode(code_value)
    IN  IF code_key.ok /\ code_value # EmptyStr /\ parsed.n = 3
        THEN [found |-> TRUE, protocol |-> parsed.protocol,
              value |-> parsed.value, bits |-> parsed.bits]
        ELSE [found |-> FALSE, protocol |-> UNKNOWN, value |-> 0, bits |-> 0]

\* A send that transmits the raw record after the protocol record.
SendLearnedCodeBoth(s, irsend, name) ==
    LET code == LoadCode(s, name)
        sent == SendIrCode(irsend, code.protocol, code.value, code.bits)
        raw  == SendLearnedRawCode(s, irsend, name)
    IN  IF code.found /\ sent.ret
        THEN [ret |-> TRUE, tx |-> sent.tx \o raw.tx]
        ELSE raw

\* IrReceiver::SendLearnedCode(name)
SendLearnedCode(s, irsend, name) ==
    LET code_key == MakeKey(CodePrefix, Truncate(name), LONG_KEY_SIZE)
        code     == LoadCode(s, name)
        sent     == SendIrCode(irsend, code.protocol, code.value, code.bits)
    IN  IF ~code_key.ok THEN [ret |-> FALSE, tx |-> << >>]
        ELSE IF code.found /\ sent.ret THEN sent
        ELSE SendLearnedRawCode(s, irsend, name)

-----------------------------------------------------------------------------
(* The readers of the store.  The text each returns is kept as the         *)
(* sequence of entries it is made of, in the order they are written.       *)

\* What GetLearnedCodes writes for one name of code_list; << >> where the
\* name is skipped.  kind is "protocol" for a code_ value written as it
\* stands (it starts with '{'), "text" for a code_ value written as a quoted
\* string, "raw" for a raw_ value.
ListEntry(s, code_name) ==
    LET code_key   == MakeKey(CodePrefix, code_name, LONG_KEY_SIZE)
        code_value == GetString(s, code_key.key, EmptyStr)
        raw_key    == MakeKey(RawPrefix, code_name, LONG_KEY_SIZE)
        raw_value  == IF raw_key.ok THEN GetString(s, raw_key.key, EmptyStr)
                      ELSE EmptyStr
    IN  IF code_name = EmptyStr \/ ~code_key.ok THEN << >>
        ELSE IF code_value # EmptyStr
             THEN <<[name |-> code_name,
                     kind |-> IF code_value[1] = "{" THEN "protocol" ELSE "text",
                     data |-> code_value]>>
        ELSE IF raw_value # EmptyStr
             THEN <<[name |-> code_name, kind |-> "raw", data |-> raw_value]>>
        ELSE << >>

ListEntries(s, names) ==
    LET written == SelectSeq(names, LAMBDA code_name : ListEntry(s, code_name) # << >>)
    IN  [i \in 1..Len(written) |-> ListEntry(s, written[i])[1]]

\* IrReceiver::GetLearnedCodes(): the entries of {"codes":[...]}.
GetLearnedCodes(s) ==
    ListEntries(s, Tokens(GetString(s, CodeListKey, EmptyStr)))

LowerCase == <<"a", "b", "c", "d", "e", "f", "g", "h", "i", "j", "k", "l", "m",
               "n", "o", "p", "q", "r", "s", "t", "u", "v", "w", "x", "y", "z">>

UpperCase == <<"A", "B", "C", "D", "E", "F", "G", "H", "I", "J", "K", "L", "M",
               "N", "O", "P", "Q", "R", "S", "T", "U", "V", "W", "X", "Y", "Z">>

\* One character of const_name: upper case, '_' for what is no letter, digit
\* or underscore.
ConstChar(c) ==
    IF \E i \in 1..26 : LowerCase[i] = c
    THEN UpperCase[CHOOSE i \in 1..26 : LowerCase[i] = c]
    ELSE IF (\E i \in 1..26 : UpperCase[i] = c) \/ IsDigit(c) \/ c = "_" THEN c
    ELSE "_"

ConstName(code_name) == [i \in 1..Len(code_name) |-> ConstChar(code_name[i])]

\* What ExportAsConstants writes for one name of code_list; << >> where
\* nothing is exported for it.
ExportEntry(s, code_name) ==
    LET truncated_code_name == Truncate(code_name)
        code_key   == MakeKey(CodePrefix, truncated_code_name, LONG_KEY_SIZE)
        code_value == IF code_key.ok THEN GetString(s, code_key.key, EmptyStr)
                      ELSE EmptyStr
        parsed     == ScanCode(code_value)
        raw_key    == MakeKey(RawPrefix, truncated_code_name, LONG_KEY_SIZE)
        raw_value  == IF raw_key.ok THEN GetString(s, raw_key.key, EmptyStr)
                      ELSE EmptyStr
        colon_pos  == FindChar(raw_value, ":")
        len        == Stoul16(SubSeq(raw_value, 1, colon_pos - 1))
        raw_len    == IF len.ok THEN len.value ELSE 0
        fields     == NonEmptyFields(SubSeq(raw_value, colon_pos + 1, Len(raw_value)))
        taken      == IF Len(fields) > raw_len THEN SubSeq(fields, 1, raw_len) ELSE fields
    IN  IF code_name = EmptyStr THEN << >>
        ELSE IF code_value # EmptyStr /\ parsed.n = 3
             THEN <<[name |-> code_name, const_name |-> ConstName(code_name),
                     kind |-> "protocol", protocol |-> parsed.protocol,
                     value |-> parsed.value, bits |-> parsed.bits]>>
        ELSE IF raw_value # EmptyStr /\ colon_pos # 0 /\ raw_len > 0
             THEN <<[name |-> code_name, const_name |-> ConstName(code_name),
                     kind |-> "raw", raw_len |-> raw_len, values |-> taken]>>
        ELSE << >>

ExportEntries(s, names) ==
    LET written == SelectSeq(names, LAMBDA code_name : ExportEntry(s, code_name) # << >>)
    IN  [i \in 1..Len(written) |-> ExportEntry(s, written[i])[1]]

\* IrReceiver::ExportAsConstants(): the declarations written inside
\* namespace IrCodes (none: one of the two "// No ... codes" comments).
ExportAsConstants(s) ==
    ExportEntries(s, Tokens(GetString(s, CodeListKey, EmptyStr)))

-----------------------------------------------------------------------------
(* Inputs.                                                                 *)

TvPwr == <<"t", "v", "_", "p", "w", "r">>

\* Ten bytes, and two eleven-byte names that start with them.
TenBytes == <<"a", "b", "c", "d", "e", "f", "g", "h", "i", "j">>
LongName == TenBytes \o <<"k">>
OtherLongName == TenBytes \o <<"Z">>

\* A name holding a comma: "a,list".
CommaName == <<"a", Comma, "l", "i", "s", "t">>

ListName == <<"l", "i", "s", "t">>

Names == {TvPwr, LongName, OtherLongName, CommaName, ListName}

\* The name of the i-th code of a namespace filled by earlier calls.
FillName(i) == <<DigitChars[(i \div 10) + 1], DigitChars[(i % 10) + 1]>>

\* The namespace after SaveLearnedCode(FillName(i), NEC, i + 1, 32) for
\* i = lo, ..., hi in turn, from namespace s.  (The namespace left by the
\* first half of the calls is bound by a quantifier, so that it is computed
\* before the second half is entered.)
RECURSIVE FillRange(_, _, _)
FillRange(s, lo, hi) ==
    LET mid == (lo + hi) \div 2
    IN  IF lo > hi THEN s
        ELSE IF lo = hi THEN SaveLearnedCode(s, FillName(lo), NEC, lo + 1, 32)
        ELSE CHOOSE t \in {FillRange(half, mid + 1, hi) :
                              half \in {FillRange(s, lo, mid)}} : TRUE

\* The namespace after n codes "00", "01", ... were saved in an empty one.
Filled(n) == FillRange(EmptyNvs, 0, n - 1)

CodeA == [protocol |-> NEC, value |-> 551489775, bits |-> 32]

CodeB == [protocol |-> UNKNOWN, value |-> 4242, bits |-> 12]

RawA == [null |-> FALSE, data |-> <<9000, 4500, 560, 1690>>, len |-> 4]

\* (protocol, value, bits) of the codes saved; 551489775 = 0x20DF10EF.
Codes == {CodeA, CodeB}

\* (raw_data, raw_len) of the raw captures saved; null: raw_data == nullptr.
Raws == {RawA, [null |-> TRUE, data |-> << >>, len |-> 0]}

\* A namespace left by an earlier session: SaveLearnedCode and SaveRawCode
\* of "tv_pwr", then SaveRawCode of an eleven-byte name.
Mixed ==
    LET s1 == SaveLearnedCode(EmptyNvs, TvPwr, CodeA.protocol, CodeA.value, CodeA.bits)
        s2 == SaveRawCode(s1, TvPwr, RawA.null, RawA.data, RawA.len)
    IN  SaveRawCode(s2, LongName, RawA.null, RawA.data, RawA.len)

\* The namespaces the receiver is constructed over: NVS keeps what earlier
\* sessions stored.
InitialNamespaces == {EmptyNvs, Filled(MAX_IR_CODES - 1), Mixed}

-----------------------------------------------------------------------------
(* The state machine: one action per public operation of the store.        *)

Init ==
    /\ nvs \in InitialNamespaces
    /\ hasTx \in BOOLEAN
    /\ tx = << >>
    /\ ret = [op |-> "IrReceiver", name |-> EmptyStr, val |-> "void"]
    /\ steps = 0
    /\ BoardIdle

Call ==
    steps < MaxSteps /\ steps' = steps + 1 /\ UNCHANGED <<hasTx, boardVars>>

DoSaveLearnedCode ==
    \E name \in Names, c \in Codes :
        /\ Call
        /\ nvs' = SaveLearnedCode(nvs, name, c.protocol, c.value, c.bits)
        /\ tx' = << >>
        /\ ret' = [op |-> "SaveLearnedCode", name |-> name, arg |-> c, val |-> "void"]

DoSaveRawCode ==
    \E name \in Names, r \in Raws :
        /\ Call
        /\ nvs' = SaveRawCode(nvs, name, r.null, r.data, r.len)
        /\ tx' = << >>
        /\ ret' = [op |-> "SaveRawCode", name |-> name, arg |-> r, val |-> "void"]

DoDeleteLearnedCode ==
    \E name \in Names :
        /\ Call
        /\ nvs' = DeleteLearnedCode(nvs, name).nvs
        /\ tx' = << >>
        /\ ret' = [op |-> "DeleteLearnedCode", name |-> name,
                   val |-> DeleteLearnedCode(nvs, name).ret]

DoDeleteAllLearnedCodes ==
    /\ Call
    /\ nvs' = DeleteAllLearnedCodes(nvs)
    /\ tx' = << >>
    /\ ret' = [op |-> "DeleteAllLearnedCodes", name |-> EmptyStr, val |-> "void"]

DoGetLearnedCodes ==
    /\ Call
    /\ ret' = [op |-> "GetLearnedCodes", name |-> EmptyStr,
               val |-> GetLearnedCodes(nvs)]
    /\ tx' = << >>
    /\ UNCHANGED nvs

DoSendLearnedCode ==
    \E name \in Names :
        /\ Call
        /\ ret' = [op |-> "SendLearnedCode", name |-> name,
                   val |-> SendLearnedCode(nvs, hasTx, name).ret]
        /\ tx' = SendLearnedCode(nvs, hasTx, name).tx
        /\ UNCHANGED nvs

DoSendLearnedRawCode ==
    \E name \in Names :
        /\ Call
        /\ ret' = [op |-> "SendLearnedRawCode", name |-> name,
                   val |-> SendLearnedRawCode(nvs, hasTx, name).ret]
        /\ tx' = SendLearnedRawCode(nvs, hasTx, name).tx
        /\ UNCHANGED nvs

DoExportAsConstants ==
    /\ Call
    /\ ret' = [op |-> "ExportAsConstants", name |-> EmptyStr,
               val |-> ExportAsConstants(nvs)]
    /\ tx' = << >>
    /\ UNCHANGED nvs

Next ==
    \/ DoSaveLearnedCode
    \/ DoSaveRawCode
    \/ DoDeleteLearnedCode
    \/ DoDeleteAllLearnedCodes
    \/ DoGetLearnedCodes
    \/ DoSendLearnedCode
    \/ DoSendLearnedRawCode
    \/ DoExportAsConstants

Spec == Init /\ [][Next]_vars

-----------------------------------------------------------------------------
(* What the properties below speak of.                                     *)

\* The index as every operation reads it: settings.GetString("code_list", "").
CodeList(s) == GetString(s, CodeListKey, EmptyStr)

\* The names of the index, as the loops over code_list visit them.
IndexNames(s) == Tokens(CodeList(s))

HasPrefix(key, prefix) ==
    Len(key) >= Len(prefix) /\ SubSeq(key, 1, Len(prefix)) = prefix

\* A protocol record is stored for name: the value under code_<name> is a
\* record as SaveLearnedCode writes it.  (The index text under code_list is
\* no record of the name "list".)
HasCodeRecord(s, name) ==
    ScanCode(GetString(s, CodePrefix \o name, EmptyStr)).n = 3

\* A raw record is stored for name.
HasRawRecord(s, name) ==
    GetString(s, RawPrefix \o name, EmptyStr) # EmptyStr

HasRecord(s, name) == HasCodeRecord(s, name) \/ HasRawRecord(s, name)

\* The names a protocol record is stored for.
CodeRecordNames(s) ==
    {SubSeq(k, Len(CodePrefix) + 1, Len(k)) :
        k \in {k \in DOMAIN s : HasPrefix(k, CodePrefix) /\ ScanCode(s[k]).n = 3}}

\* The names a raw record is stored for.
RawRecordNames(s) ==
    {SubSeq(k, Len(RawPrefix) + 1, Len(k)) :
        k \in {k \in DOMAIN s : HasPrefix(k, RawPrefix) /\ s[k] # EmptyStr}}

\* What a lookup of a stored code (protocol, value, bits) returns.
Found(c) ==
    [found |-> TRUE, protocol |-> c.protocol, value |-> c.value, bits |-> c.bits]

RecordNames(s) == CodeRecordNames(s) \cup RawRecordNames(s)

\* The names GetLearnedCodes lists.
ListedNames(s) ==
    {GetLearnedCodes(s)[i].name : i \in 1..Len(GetLearnedCodes(s))}

\* A name that is not empty, holds no comma and is not "list".
PlainName(name) ==
    name # EmptyStr /\ FindChar(name, Comma) = 0 /\ name # ListName

-----------------------------------------------------------------------------
(* C1 - C10: the code store.                                               *)

\* The names GetLearnedCodes lists are the names a record is stored for.
IndexConsistent(s) == ListedNames(s) = RecordNames(s)

PlainNames == {name \in Names : PlainName(name)}

\* C1: the names GetLearnedCodes lists are exactly the names for which a
\* code_<name> or raw_<name> record exists.  Stated as what every store
\* operation called with a plain name (non-empty, no comma, not "list")
\* keeps: from a namespace where the listed names are the names with a
\* record, SaveLearnedCode, SaveRawCode and DeleteLearnedCode lead to such a
\* namespace.
C1_IndexConsistency ==
    IndexConsistent(nvs) =>
        \A name \in PlainNames :
            /\ \A c \in Codes :
                 IndexConsistent(SaveLearnedCode(nvs, name, c.protocol, c.value, c.bits))
            /\ \A r \in Raws :
                 IndexConsistent(SaveRawCode(nvs, name, r.null, r.data, r.len))
            /\ IndexConsistent(DeleteLearnedCode(nvs, name).nvs)

\* C2: when code_list already holds MAX_IR_CODES names, SaveLearnedCode of a
\* name that is not in code_list does not add it (code_list stays as it
\* was), and SaveLearnedCode of a name that is in code_list overwrites its
\* record and leaves code_list as it was.
C2_CapacityBoundary ==
    \A names \in {IndexNames(nvs)} :
        CodeCount(names) = MAX_IR_CODES =>
            \A name \in Names, c \in Codes :
                \A after \in {SaveLearnedCode(nvs, name, c.protocol, c.value, c.bits)} :
                    /\ CodeList(after) = CodeList(nvs)
                    /\ NameExists(names, Truncate(name)) =>
                           LoadCode(after, name) = Found(c)

\* C3: after any SaveLearnedCode or SaveRawCode the number of names in
\* code_list is at most MAX_IR_CODES.  Stated as what a save under a plain
\* name keeps: where code_list holds at most MAX_IR_CODES names, it holds at
\* most MAX_IR_CODES names after the save.
C3_CountBounded ==
    CodeCount(IndexNames(nvs)) <= MAX_IR_CODES =>
        \A name \in PlainNames :
            /\ \A c \in Codes :
                 CodeCount(IndexNames(SaveLearnedCode(nvs, name, c.protocol, c.value, c.bits)))
                     <= MAX_IR_CODES
            /\ \A r \in Raws :
                 CodeCount(IndexNames(SaveRawCode(nvs, name, r.null, r.data, r.len)))
                     <= MAX_IR_CODES

\* No name occurs twice among the names of the index.
NoDuplicates(names) ==
    Cardinality({names[i] : i \in 1..Len(names)}) = Len(names)

\* C4: code_list never holds a name twice, and a save under a name that is
\* in code_list (as it stands or by its first ten bytes) overwrites the
\* record of that name and leaves code_list as it was.
C4_UpsertNoDuplicates ==
    \A names \in {IndexNames(nvs)} :
        /\ NoDuplicates(names)
        /\ \A name \in Names :
             NameExists(names, Truncate(name)) =>
               /\ \A c \in Codes :
                    \A after \in {SaveLearnedCode(nvs, name, c.protocol, c.value, c.bits)} :
                        /\ CodeList(after) = CodeList(nvs)
                        /\ LoadCode(after, name) = Found(c)
               /\ \A after \in {SaveRawCode(nvs, name, RawA.null, RawA.data, RawA.len)} :
                    /\ CodeList(after) = CodeList(nvs)
                    /\ LoadRaw(after, name) = [ok |-> TRUE, data |-> RawA.data]

\* Codes whose fields take the least and greatest values of their types that
\* the decimal conversions meet: a negative protocol, 0, one and two and ten
\* digits, the greatest uint16_t.
RoundTripCodes ==
    {[protocol |-> p, value |-> v, bits |-> b] :
        p \in {UNKNOWN, 0, NEC, DENON},
        v \in {0, 9, 10, 4242, 551489775, 2147483647},
        b \in {0, 12, 32, UINT16_MOD - 1}}

\* C5: after SaveLearnedCode(name, protocol, value, bits) the record read
\* back for name, parsed as SendLearnedCode parses it, has the same
\* protocol, value and bits; after DeleteLearnedCode(name) a lookup of name
\* finds neither a protocol record nor a raw record.
C5_SaveLoadRoundTrip ==
    [][/\ ret.op = "IrReceiver" =>
            \A c \in RoundTripCodes :
                ScanCode(FormatCode(c.protocol, c.value, c.bits)) =
                    [n |-> 3, protocol |-> c.protocol, value |-> c.value,
                     bits |-> c.bits]
       /\ ret'.op = "SaveLearnedCode" =>
            LoadCode(nvs', ret'.name) = Found(ret'.arg)
       /\ ret'.op = "DeleteLearnedCode" =>
            ~LoadCode(nvs', ret'.name).found /\ ~LoadRaw(nvs', ret'.name).ok]_vars

\* A code saved under "tv_pwr" is in the namespace and reads back as saved.
C5_Witness ==
    /\ ret.op = "SaveLearnedCode"
    /\ ret.name = TvPwr
    /\ LoadCode(nvs, TvPwr) = Found(CodeA)

\* The names a lookup is made under: the names saved, and the ten bytes the
\* long ones start with.
LookupNames == Names \cup {TenBytes}

\* The names with the same first ten bytes as name.
SameTruncation(name) == {n \in LookupNames : Truncate(n) = Truncate(name)}

\* An entry of ExportAsConstants without the name it was asked under.
Exported(s, name) ==
    LET entry == ExportEntry(s, name)
    IN  IF entry = << >> THEN << >>
        ELSE IF entry[1].kind = "protocol"
        THEN <<entry[1].protocol, entry[1].value, entry[1].bits>>
        ELSE <<entry[1].raw_len, entry[1].values>>

\* C6: SaveLearnedCode, SaveRawCode, DeleteLearnedCode, SendLearnedCode,
\* SendLearnedRawCode and ExportAsConstants each cut a name to its first ten
\* bytes: a record saved under one name is the record found, sent, exported
\* and deleted under every name with the same first ten bytes.
C6_TruncationDeterminism ==
    [][/\ Truncate(LongName) = TenBytes /\ Truncate(OtherLongName) = TenBytes
       /\ \A n2 \in SameTruncation(ret'.name) :
            /\ ret'.op = "SaveLearnedCode" =>
                 /\ LoadCode(nvs', n2) = Found(ret'.arg)
                 /\ Exported(nvs', n2) =
                        <<ret'.arg.protocol, ret'.arg.value, ret'.arg.bits>>
                 /\ SendLearnedCode(nvs', TRUE, n2) =
                        SendIrCode(TRUE, ret'.arg.protocol, ret'.arg.value,
                                   ret'.arg.bits)
                 /\ DeleteLearnedCode(nvs', n2).ret
            /\ (ret'.op = "SaveRawCode" /\ ~ret'.arg.null /\ ret'.arg.len > 0) =>
                 /\ LoadRaw(nvs', n2) = [ok |-> TRUE, data |-> ret'.arg.data]
                 /\ SendLearnedRawCode(nvs', TRUE, n2) =
                        SendRawCode(TRUE, FALSE, ret'.arg.data, ret'.arg.len,
                                    RAW_FREQUENCY)
                 /\ DeleteLearnedCode(nvs', n2).ret
            /\ ret'.op = "DeleteLearnedCode" =>
                 /\ ret'.val = DeleteLearnedCode(nvs, n2).ret
                 /\ ~LoadCode(nvs', n2).found /\ ~LoadRaw(nvs', n2).ok
            /\ ret'.op = "SendLearnedCode" =>
                 SendLearnedCode(nvs, hasTx, n2) = [ret |-> ret'.val, tx |-> tx']
            /\ ret'.op = "SendLearnedRawCode" =>
                 SendLearnedRawCode(nvs, hasTx, n2) = [ret |-> ret'.val, tx |-> tx']
       /\ ret'.op = "ExportAsConstants" =>
            \A i \in 1..Len(ret'.val) :
                \A n2 \in SameTruncation(ret'.val[i].name) :
                    Exported(nvs, n2) = Exported(nvs, ret'.val[i].name)]_vars

\* A code was sent under one eleven-byte name while the index holds the ten
\* bytes it shares with the other.
C6_Witness ==
    /\ ret.op = "SendLearnedCode"
    /\ ret.name = OtherLongName
    /\ ret.val = TRUE
    /\ Len(tx) = 1
    /\ tx[1].kind = "protocol"
    /\ NameExists(IndexNames(nvs), TenBytes)

\* C7: DeleteLearnedCode(name) returns true exactly when a protocol or raw
\* record was stored for name; it then erases both records and takes the
\* name out of code_list, erasing the key code_list where no name is left
\* rather than storing an empty string; it returns false and changes nothing
\* when nothing was stored for name.
C7_DeleteExactly ==
    [][ret'.op = "DeleteLearnedCode" =>
         LET truncated_name == Truncate(ret'.name)
         IN  /\ ret'.val = HasRecord(nvs, truncated_name)
             /\ ret'.val =>
                  /\ ~HasRecord(nvs', truncated_name)
                  /\ ~NameExists(IndexNames(nvs'), truncated_name)
                  /\ CodeListKey \in DOMAIN nvs' => nvs'[CodeListKey] # EmptyStr
             /\ ~ret'.val => nvs' = nvs]_vars

\* C8: where a protocol record and a raw record are stored for a name,
\* GetLearnedCodes reports the protocol record and SendLearnedCode sends the
\* protocol record; the raw record is used only where no protocol record is
\* stored; the lookup fails only where neither is stored.
C8_LookupPrecedence ==
    \A listed \in {GetLearnedCodes(nvs)} :
        /\ \A i \in 1..Len(listed) :
             /\ HasCodeRecord(nvs, listed[i].name) =>
                  /\ listed[i].kind = "protocol"
                  /\ listed[i].data = GetString(nvs, CodePrefix \o listed[i].name, EmptyStr)
             /\ (~HasCodeRecord(nvs, listed[i].name) /\ HasRawRecord(nvs, listed[i].name)) =>
                  /\ listed[i].kind = "raw"
                  /\ listed[i].data = GetString(nvs, RawPrefix \o listed[i].name, EmptyStr)
        /\ hasTx =>
             \A name \in Names :
                 LET sent == SendLearnedCode(nvs, hasTx, name)
                 IN  IF HasCodeRecord(nvs, Truncate(name))
                     THEN sent.ret /\ Len(sent.tx) = 1 /\ sent.tx[1].kind = "protocol"
                     ELSE IF HasRawRecord(nvs, Truncate(name))
                     THEN sent.ret /\ Len(sent.tx) = 1 /\ sent.tx[1].kind = "raw"
                     ELSE ~sent.ret /\ sent.tx = << >>

\* The names of the index a record is stored for, in index order.
Backed(s, names) ==
    SelectSeq(names, LAMBDA code_name : code_name # EmptyStr /\ HasRecord(s, code_name))

\* C9: GetLearnedCodes skips the names of code_list that no record is stored
\* for and returns every other name of code_list, in the order of code_list.
C9_ListSkipsMissing ==
    \A listed \in {GetLearnedCodes(nvs)}, backed \in {Backed(nvs, IndexNames(nvs))} :
        /\ Len(listed) = Len(backed)
        /\ \A i \in 1..Len(listed) : listed[i].name = backed[i]

\* C10: DeleteAllLearnedCodes erases every record and the index, whatever
\* the namespace holds: afterwards the namespace is empty, GetLearnedCodes
\* lists nothing and no lookup finds a record.
C10_DeleteAllUnconditional ==
    /\ \A after \in {DeleteAllLearnedCodes(nvs)} :
           /\ DOMAIN after = {}
           /\ GetLearnedCodes(after) = << >>
           /\ \A name \in LookupNames :
                ~LoadCode(after, name).found /\ ~LoadRaw(after, name).ok
    /\ ret.op = "DeleteAllLearnedCodes" => DOMAIN nvs = {}

\* DeleteAllLearnedCodes has run and left nothing.
C10_Witness ==
    /\ ret.op = "DeleteAllLearnedCodes"
    /\ nvs = EmptyNvs

-----------------------------------------------------------------------------
(* C11 - C20: names with a comma, the learning session, the transmitter.   *)

\* C11: SaveLearnedCode and SaveRawCode called with a name that holds a comma
\* store nothing and leave code_list as it was: the namespace after the call
\* is the namespace before it.
C11_CommaNameRejected ==
    [][(ret'.op \in {"SaveLearnedCode", "SaveRawCode"}
            /\ FindChar(ret'.name, Comma) # 0) => nvs' = nvs]_vars

\* C16: SendLearnedCode sends the protocol record where one is stored and
\* the raw record otherwise; a call that returns true has made exactly one
\* driver call, a call that returns false has made none; SendLearnedRawCode
\* makes no driver call but sendRaw of the raw record.
C16_SendOneSignal ==
    [][/\ ret'.op = "SendLearnedCode" =>
            \A code \in {LoadCode(nvs, ret'.name)}, raw \in {LoadRaw(nvs, ret'.name)} :
                /\ ret'.val => Len(tx') = 1
                /\ ~ret'.val => tx' = << >>
                /\ (hasTx /\ code.found) =>
                       /\ ret'.val
                       /\ tx' = <<DriverCall(code.protocol, code.value, code.bits)>>
                /\ (hasTx /\ ~code.found /\ raw.ok /\ raw.data # << >>) =>
                       /\ ret'.val
                       /\ tx' = <<RawCall(raw.data, Len(raw.data), RAW_FREQUENCY)>>
                /\ (~code.found /\ ~(raw.ok /\ raw.data # << >>)) => ~ret'.val
       /\ ret'.op = "SendLearnedRawCode" =>
            \A raw \in {LoadRaw(nvs, ret'.name)} :
                /\ ret'.val =>
                       tx' = <<RawCall(raw.data, Len(raw.data), RAW_FREQUENCY)>>
                /\ ~ret'.val => tx' = << >>
                /\ (hasTx /\ raw.ok /\ raw.data # << >>) => ret'.val]_vars

\* SendLearnedCode of a name with a raw record and no protocol record has
\* sent the raw record.
C16_Witness ==
    /\ ret.op = "SendLearnedCode"
    /\ ret.name = LongName
    /\ ~LoadCode(nvs, LongName).found
    /\ ret.val = TRUE
    /\ tx = <<RawCall(RawA.data, RawA.len, RAW_FREQUENCY)>>

-----------------------------------------------------------------------------
(* The transmitter called directly: SendIrCode and SendRawCode with inputs *)
(* of every kind, and the sends by name, over a namespace that is not      *)
(* written.                                                                *)

\* decode_type_t values passed to SendIrCode: UNKNOWN, every value the switch
\* names and values it does not name.
SendProtocols == UNKNOWN..(DENON + 1)

SendValues == {0, CodeA.value}

SendBits == {0, 12, 32, SAMSUNG36_BITS, COOLIX48_BITS}

\* Carrier frequencies passed to SendRawCode (the default and another).
SendFrequencies == {RAW_FREQUENCY, 36000}

InitSend ==
    /\ nvs \in {EmptyNvs, Mixed}
    /\ hasTx \in BOOLEAN
    /\ tx = << >>
    /\ ret = [op |-> "IrReceiver", name |-> EmptyStr, val |-> "void"]
    /\ steps = 0
    /\ BoardIdle

DoSendIrCode ==
    \E protocol \in SendProtocols, value \in SendValues, bits \in SendBits :
        /\ Call
        /\ ret' = [op |-> "SendIrCode", name |-> EmptyStr,
                   arg |-> [protocol |-> protocol, value |-> value, bits |-> bits],
                   val |-> SendIrCode(hasTx, protocol, value, bits).ret]
        /\ tx' = SendIrCode(hasTx, protocol, value, bits).tx
        /\ UNCHANGED nvs

DoSendRawCode ==
    \E r \in Raws, frequency \in SendFrequencies :
        /\ Call
        /\ ret' = [op |-> "SendRawCode", name |-> EmptyStr,
                   arg |-> [raw |-> r, frequency |-> frequency],
                   val |-> SendRawCode(hasTx, r.null, r.data, r.len, frequency).ret]
        /\ tx' = SendRawCode(hasTx, r.null, r.data, r.len, frequency).tx
        /\ UNCHANGED nvs

NextSend ==
    \/ DoSendIrCode
    \/ DoSendRawCode
    \/ DoSendLearnedCode
    \/ DoSendLearnedRawCode

SpecSend == InitSend /\ [][NextSend]_vars

SendOps == {"SendIrCode", "SendRawCode", "SendLearnedCode", "SendLearnedRawCode"}

\* C18: where irsend_ is null, SendIrCode, SendRawCode, SendLearnedCode and
\* SendLearnedRawCode return false and make no driver call, whatever their
\* arguments and whatever the namespace holds.
C18_NoTransmitterNoSend ==
    ~hasTx => /\ tx = << >>
              /\ ret.op \in SendOps => ret.val = FALSE

\* Without a transmitter the send of a stored code has failed.
C18_Witness ==
    /\ ~hasTx
    /\ ret.op = "SendLearnedCode"
    /\ ret.name = TvPwr
    /\ LoadCode(nvs, TvPwr).found
    /\ LoadRaw(nvs, TvPwr).ok
    /\ ret.val = FALSE

\* The encoder SendIrCode calls with the bits it was given, by protocol.
OwnEncoder ==
    (NEC :> "sendNEC") @@ (SONY :> "sendSony") @@ (RC5 :> "sendRC5")
        @@ (RC6 :> "sendRC6") @@ (DISH :> "sendDISH") @@ (SHARP :> "sendSharp")
        @@ (JVC :> "sendJVC") @@ (LG :> "sendLG") @@ (WHYNTER :> "sendWhynter")
        @@ (DENON :> "sendDenon")

\* C19: with a transmitter, SendIrCode makes exactly one driver call and
\* returns true: a protocol with an encoder of its own goes to that encoder
\* with the given value and bits, SAMSUNG goes to sendSamsung36 as 36 bits
\* and COOLIX to sendCoolix48 as 48 bits whatever the bits argument, and
\* every other protocol goes to sendNEC with the given value and bits.
C19_SendIrCodeDispatch ==
    (hasTx /\ ret.op = "SendIrCode") =>
        /\ ret.val = TRUE
        /\ Len(tx) = 1
        /\ tx[1].kind = "protocol"
        /\ tx[1].value = ret.arg.value
        /\ tx[1].driver =
               IF ret.arg.protocol \in DOMAIN OwnEncoder
               THEN OwnEncoder[ret.arg.protocol]
               ELSE IF ret.arg.protocol = SAMSUNG THEN "sendSamsung36"
               ELSE IF ret.arg.protocol = COOLIX THEN "sendCoolix48"
               ELSE "sendNEC"
        /\ tx[1].bits =
               IF ret.arg.protocol = SAMSUNG THEN SAMSUNG36_BITS
               ELSE IF ret.arg.protocol = COOLIX THEN COOLIX48_BITS
               ELSE ret.arg.bits

\* SAMSUNG was sent as 36 bits though 12 bits were asked for.
C19_Witness ==
    /\ hasTx
    /\ ret.op = "SendIrCode"
    /\ ret.arg.protocol = SAMSUNG
    /\ ret.arg.bits = 12
    /\ tx = <<ProtocolCall("sendSamsung36", ret.arg.value, SAMSUNG36_BITS)>>

-----------------------------------------------------------------------------
(* Raw captures saved and replayed: SaveRawCode with captures up to and    *)
(* beyond the length SendLearnedRawCode accepts, and the sends by name.    *)

\* A capture of n durations.
RawOfLen(n) == [null |-> FALSE, data |-> [i \in 1..n |-> 10], len |-> n]

\* The captures saved: four durations, the greatest length
\* SendLearnedRawCode accepts, and one duration more (its record is shorter
\* than the 3900 bytes SaveRawCode accepts).
Captures == {RawA, RawOfLen(RAW_SEND_LIMIT), RawOfLen(RAW_SEND_LIMIT + 1)}

DoSaveCapture ==
    \E name \in Names, r \in Captures :
        /\ Call
        /\ nvs' = SaveRawCode(nvs, name, r.null, r.data, r.len)
        /\ tx' = << >>
        /\ ret' = [op |-> "SaveRawCode", name |-> name, arg |-> r, val |-> "void"]

NextReplay ==
    \/ DoSaveCapture
    \/ DoSendLearnedCode
    \/ DoSendLearnedRawCode

SpecReplay == InitSend /\ [][NextReplay]_vars

\* C17: after SaveRawCode(name, raw_data, raw_len), SendLearnedRawCode(name)
\* passes raw_data, with the same length, values and order, to sendRaw, and
\* so does SendLearnedCode(name) where no protocol record is stored for the
\* name.
C17_RawReplayRoundTrip ==
    [][ret'.op = "SaveRawCode" =>
         \A replay \in {[ret |-> TRUE,
                          tx  |-> <<RawCall(ret'.arg.data, ret'.arg.len,
                                            RAW_FREQUENCY)>>]} :
             /\ SendLearnedRawCode(nvs', TRUE, ret'.name) = replay
             /\ ~LoadCode(nvs', ret'.name).found =>
                    SendLearnedCode(nvs', TRUE, ret'.name) = replay]_vars


-----------------------------------------------------------------------------
(* The learning session of the board: the self.ir.learn_command tool, the  *)
(* capture callback given to OnCommandReceived and the worker task          *)
(* ir_learn_task (xingzhi-cube-1.54tft-wifi.cc).  The tool's caller, the    *)
(* callback and the worker run concurrently; a step of the model is the    *)
(* code between two points where another of them can be scheduled.         *)

\* The timeout property of the tool accepts 1..60 seconds; the wait is made
\* in chunks of one second.
MaxTimeout == 2

\* xQueueCreate(5, sizeof(IRCommandEvent))
IR_COMMAND_QUEUE_LENGTH == 5

\* The events the receiver hands to the capture callback.
LearnEvents ==
    {[command |-> 16, protocol |-> "NEC"],
     [command |-> 0, protocol |-> "UNKNOWN"]}

ErrStart ==
    "Failed to start IR receiver - no free RMT channels. Try disabling LED or other RMT devices."
ErrSemaphore == "IR learning system not properly initialized"
ErrTimeout == "Timeout: No IR signal received"

InitLearn ==
    /\ nvs = EmptyNvs
    /\ hasTx = FALSE
    /\ tx = << >>
    /\ ret = [op |-> "IrReceiver", name |-> EmptyStr, val |-> "void"]
    /\ steps = 0
    /\ StripIdle
    /\ TeardownIdle
    /\ MutexIdle
    /\ SaversIdle
    /\ RunIdle
    /\ SessionIdle
    /\ ir_learn_semaphore_ \in {"null", "empty"}
    /\ ReceiveIdle
    /\ board = "xingzhi"
    /\ learning_callback_ = FALSE
    /\ raw_learning_callback_ = FALSE
    /\ callback_ = FALSE

StoreUnchanged ==
    UNCHANGED <<nvs, hasTx, tx, ret, steps, receiveVars, runVars, savers,
                mutexVars, teardownVars, stripVars>>

\* learn_command, from its entry to the store of ir_learning_active_.
Arm ==
    \E timeout_seconds \in 1..MaxTimeout :
        /\ learn_command.pc = "idle"
        /\ learned_command_' = 0
        /\ learned_protocol_' = ""
        /\ ir_learning_active_' = TRUE
        /\ learn_command' = [pc |-> "start", remaining |-> timeout_seconds,
                             result |-> FALSE]
        /\ arrived' = FALSE
        /\ UNCHANGED <<ir_learn_semaphore_, ir_command_queue_,
                       receiverRunning, ir_learn_task, reply>>
        /\ StoreUnchanged

\* learn_command: Stop(), Start(), a second Start() if the first failed, and
\* the return taken if the receiver is still not running.  Whether Start()
\* succeeds is the receiver's matter.
StartReceiver ==
    \E started \in BOOLEAN :
        /\ learn_command.pc = "start"
        /\ receiverRunning' = started
        /\ IF started
           THEN /\ learn_command' = [learn_command EXCEPT !.pc = "semaphore"]
                /\ UNCHANGED <<ir_learning_active_, reply>>
           ELSE /\ ir_learning_active_' = FALSE
                /\ learn_command' = [learn_command EXCEPT !.pc = "idle"]
                /\ reply' = [success |-> FALSE, error |-> ErrStart,
                             protocol |-> ""]
        /\ UNCHANGED <<ir_learn_semaphore_, ir_command_queue_,
                       learned_command_, learned_protocol_, ir_learn_task,
                       arrived>>
        /\ StoreUnchanged

\* learn_command: the test of ir_learn_semaphore_ and the return taken if it
\* is null.
CheckSemaphore ==
    /\ learn_command.pc = "semaphore"
    /\ IF ir_learn_semaphore_ = "null"
       THEN /\ receiverRunning' = FALSE
            /\ ir_learning_active_' = FALSE
            /\ learn_command' = [learn_command EXCEPT !.pc = "idle"]
            /\ reply' = [success |-> FALSE, error |-> ErrSemaphore,
                         protocol |-> ""]
       ELSE /\ learn_command' = [learn_command EXCEPT !.pc = "wait"]
            /\ UNCHANGED <<receiverRunning, ir_learning_active_, reply>>
    /\ UNCHANGED <<ir_learn_semaphore_, ir_command_queue_, learned_command_,
                   learned_protocol_, ir_learn_task, arrived>>
    /\ StoreUnchanged

\* learn_command: one xSemaphoreTake of the wait loop.  It takes the
\* semaphore if it is given; otherwise it blocks for its chunk of the
\* timeout and returns pdFALSE, and the loop ends with the last chunk.
TakeSemaphore ==
    /\ learn_command.pc = "wait"
    /\ IF ir_learn_semaphore_ = "given"
       THEN /\ ir_learn_semaphore_' = "empty"
            /\ learn_command' = [learn_command EXCEPT !.pc = "stop",
                                                      !.result = TRUE]
       ELSE /\ UNCHANGED ir_learn_semaphore_
            /\ learn_command' =
                   [pc |-> IF learn_command.remaining = 1
                           THEN "stop" ELSE "wait",
                    remaining |-> learn_command.remaining - 1,
                    result |-> FALSE]
    /\ UNCHANGED <<ir_learning_active_, ir_command_queue_, learned_command_,
                   learned_protocol_, receiverRunning, ir_learn_task, reply,
                   arrived>>
    /\ StoreUnchanged

\* learn_command: Stop() after the wait loop.
StopReceiver ==
    /\ learn_command.pc = "stop"
    /\ receiverRunning' = FALSE
    /\ learn_command' = [learn_command EXCEPT !.pc = "return"]
    /\ UNCHANGED <<ir_learning_active_, ir_learn_semaphore_,
                   ir_command_queue_, learned_command_, learned_protocol_,
                   ir_learn_task, reply, arrived>>
    /\ StoreUnchanged

\* learn_command: the two returns after the wait loop.  The one taken when
\* the semaphore was obtained does not store ir_learning_active_.
Return ==
    /\ learn_command.pc = "return"
    /\ learn_command' = [learn_command EXCEPT !.pc = "idle"]
    /\ IF learn_command.result
       THEN /\ reply' = [success |-> TRUE, error |-> "",
                         protocol |-> learned_protocol_]
            /\ UNCHANGED ir_learning_active_
       ELSE /\ ir_learning_active_' = FALSE
            /\ reply' = [success |-> FALSE, error |-> ErrTimeout,
                         protocol |-> ""]
    /\ UNCHANGED <<ir_learn_semaphore_, ir_command_queue_, learned_command_,
                   learned_protocol_, receiverRunning, ir_learn_task,
                   arrived>>
    /\ StoreUnchanged

\* A send that makes room by dropping the oldest event.
xQueueSendDropOldest(queue, event) ==
    IF Len(queue) < IR_COMMAND_QUEUE_LENGTH THEN Append(queue, event)
    ELSE Append(Tail(queue), event)

\* xQueueSendFromISR(ir_command_queue_, &event, ...): the queue left; a
\* full queue is left as it is and the call returns at once.
xQueueSendFromISR(queue, event) ==
    IF Len(queue) < IR_COMMAND_QUEUE_LENGTH THEN Append(queue, event)
    ELSE queue

\* The capture callback: the event is queued if the session is active and
\* the queue has room, and dropped otherwise.
CaptureCallback ==
    \E event \in LearnEvents :
        /\ receiverRunning
        /\ arrived' = TRUE
        /\ ir_command_queue_' =
               IF ir_learning_active_
               THEN xQueueSendFromISR(ir_command_queue_, event)
               ELSE ir_command_queue_
        /\ UNCHANGED <<ir_learning_active_, ir_learn_semaphore_,
                       learned_command_, learned_protocol_, receiverRunning,
                       learn_command, ir_learn_task, reply>>
        /\ StoreUnchanged

\* ir_learn_task: xQueueReceive returns an event.
WorkerReceive ==
    /\ ir_learn_task.pc = "receive"
    /\ ir_command_queue_ # << >>
    /\ ir_learn_task' = [pc |-> "check",
                         command |-> Head(ir_command_queue_).command,
                         protocol |-> Head(ir_command_queue_).protocol]
    /\ ir_command_queue_' = Tail(ir_command_queue_)
    /\ UNCHANGED <<ir_learning_active_, ir_learn_semaphore_,
                   learned_command_, learned_protocol_, receiverRunning,
                   learn_command, reply, arrived>>
    /\ StoreUnchanged

\* ir_learn_task: the load of ir_learning_active_; an event received while
\* the session is not active is discarded.
WorkerCheck ==
    /\ ir_learn_task.pc = "check"
    /\ ir_learn_task' =
           [ir_learn_task EXCEPT
               !.pc = IF ir_learning_active_ THEN "store" ELSE "receive"]
    /\ UNCHANGED <<ir_learning_active_, ir_learn_semaphore_,
                   ir_command_queue_, learned_command_, learned_protocol_,
                   receiverRunning, learn_command, reply, arrived>>
    /\ StoreUnchanged

\* ir_learn_task: the learned members are written and the flag is cleared.
WorkerStore ==
    /\ ir_learn_task.pc = "store"
    /\ learned_command_' = ir_learn_task.command
    /\ learned_protocol_' = ir_learn_task.protocol
    /\ ir_learning_active_' = FALSE
    /\ ir_learn_task' = [ir_learn_task EXCEPT !.pc = "give"]
    /\ UNCHANGED <<ir_learn_semaphore_, ir_command_queue_, receiverRunning,
                   learn_command, reply, arrived>>
    /\ StoreUnchanged

\* ir_learn_task: xSemaphoreGive, if there is a semaphore.
WorkerGive ==
    /\ ir_learn_task.pc = "give"
    /\ ir_learn_semaphore_' =
           IF ir_learn_semaphore_ = "null" THEN "null" ELSE "given"
    /\ ir_learn_task' = [ir_learn_task EXCEPT !.pc = "receive"]
    /\ UNCHANGED <<ir_learning_active_, ir_command_queue_, learned_command_,
                   learned_protocol_, receiverRunning, learn_command, reply,
                   arrived>>
    /\ StoreUnchanged

NextLearn ==
    \/ Arm
    \/ StartReceiver
    \/ CheckSemaphore
    \/ TakeSemaphore
    \/ StopReceiver
    \/ Return
    \/ CaptureCallback
    \/ WorkerReceive
    \/ WorkerCheck
    \/ WorkerStore
    \/ WorkerGive

SpecLearn == InitLearn /\ [][NextLearn]_vars

\* A step in which learn_command returns.
Returns == learn_command.pc # "idle" /\ learn_command'.pc = "idle"

\* C14: whenever learn_command returns (after a capture, a timeout, a
\* receiver that did not start, a missing semaphore), ir_learning_active_ is
\* false, whatever the interleaving with the capture callback and the
\* worker.
C14_ReturnsToIdle == [][Returns => ~ir_learning_active_']_vars

\* C12: a learn_command during which no signal reaches the capture callback
\* returns success false with the timeout error, leaves nothing learned and
\* leaves ir_learning_active_ false (Arm asks no more than that the call
\* has returned).
C12_TimeoutReturnsToIdle ==
    [][(Returns /\ learn_command.pc = "return" /\ ~arrived) =>
         /\ reply' = [success |-> FALSE, error |-> ErrTimeout,
                      protocol |-> ""]
         /\ learned_protocol_' = ""
         /\ learned_command_' = 0
         /\ ~ir_learning_active_']_vars


-----------------------------------------------------------------------------
(* The receive task: IrReceiver::ProcessIrTask of the zhengchen board with *)
(* the self.ir.start_learning and self.ir.stop_learning tools, and          *)
(* IrReceiver::ProcessIrTask of the xingzhi board with SetLearningMode.     *)
(* The task and the callers of the learning mode run concurrently; a step  *)
(* of the task is the code between two of its reads of shared state.       *)

\* Number of results the decoder hands to the task.
MaxSignals == 2

\* results.decode_type > 100 is not valid (xingzhi ProcessIrTask).
MAX_DECODE_TYPE == 100

\* results.bits > 64 is not valid (xingzhi ProcessIrTask).
MAX_RESULT_BITS == 64

\* An UNKNOWN result is passed on with 8..64 bits (xingzhi ProcessIrTask).
MIN_UNKNOWN_BITS == 8

\* const size_t max_name_length = 250 (zhengchen SaveLearnedCode)
ZHENGCHEN_MAX_NAME_LENGTH == 250

\* char code_key[256] (zhengchen SaveLearnedCode, GetLearnedCodes)
ZHENGCHEN_KEY_SIZE == 256

HexChars ==
    <<"0", "1", "2", "3", "4", "5", "6", "7", "8", "9",
      "a", "b", "c", "d", "e", "f">>

\* printf("%llx")
RECURSIVE Hex(_)
Hex(n) == IF n < 16 THEN <<HexChars[n + 1]>>
          ELSE Hex(n \div 16) \o <<HexChars[(n % 16) + 1]>>

\* printf("%0<width>llx")
HexPad(n, width) ==
    [i \in 1..(width - Len(Hex(n))) |-> "0"] \o Hex(n)

\* zhengchen IrReceiver::SaveLearnedCode(name, protocol, value, bits): the
\* namespace left.
SaveLearnedCode_zhengchen(s, name, protocol, value, bits) ==
    LET truncated_name == Prefix(name, ZHENGCHEN_MAX_NAME_LENGTH)
        code_key  == MakeKey(CodePrefix, truncated_name, ZHENGCHEN_KEY_SIZE)
        s1        == SetString(s, code_key.key, FormatCode(protocol, value, bits))
        code_list == GetString(s1, CodeListKey, EmptyStr)
        names     == Tokens(code_list)
        name_exists ==
            \E i \in 1..Len(names) :
                Prefix(names[i], ZHENGCHEN_MAX_NAME_LENGTH) = truncated_name
    IN  IF ~code_key.ok THEN s
        ELSE IF ~name_exists
             THEN SetString(s1, CodeListKey, AppendName(code_list, truncated_name))
        ELSE s1

\* zhengchen IrReceiver::GetLearnedCodes(): the entries of {"codes":[...]}.
GetLearnedCodes_zhengchen(s) ==
    LET names   == Tokens(GetString(s, CodeListKey, EmptyStr))
        Data(code_name) ==
            IF code_name = EmptyStr
               \/ ~MakeKey(CodePrefix, code_name, ZHENGCHEN_KEY_SIZE).ok
            THEN EmptyStr
            ELSE GetString(s, CodePrefix \o code_name, EmptyStr)
        written == SelectSeq(names, LAMBDA code_name : Data(code_name) # EmptyStr)
    IN  [i \in 1..Len(written) |->
            [name |-> written[i], data |-> Data(written[i])]]

\* The calls the task makes on the callbacks.
LearningCall(protocol, value, bits, name) ==
    [callback |-> "learning_callback_", protocol |-> protocol,
     value |-> value, bits |-> bits, rawlen |-> 0, name |-> name]

RawLearningCall(rawlen, name) ==
    [callback |-> "raw_learning_callback_", protocol |-> UNKNOWN,
     value |-> 0, bits |-> 0, rawlen |-> rawlen, name |-> name]

NormalCall(protocol, value, bits) ==
    [callback |-> "callback_", protocol |-> protocol, value |-> value,
     bits |-> bits, rawlen |-> 0, name |-> EmptyStr]

NamePrefixIR == <<"I", "R", "_">>

NamePrefixRAW == <<"R", "A", "W", "_">>

NamePrefixUNK == <<"U", "N", "K", "_">>

\* A dispatch that asks the learning callback whatever is_learning holds.
ZhengchenCallsAlwaysLearn(r, is_learning, learning_cb, normal_cb) ==
    (IF learning_cb
     THEN <<LearningCall(r.decode_type, r.value, r.bits,
                         NamePrefixIR \o Hex(r.value))>>
     ELSE << >>)
    \o (IF normal_cb /\ ~is_learning
        THEN <<NormalCall(r.decode_type, r.value, r.bits)>> ELSE << >>)

\* zhengchen ProcessIrTask, for a result whose decode_type is not UNKNOWN:
\* the calls made with the loaded is_learning and the callbacks as set.
ZhengchenCalls(r, is_learning, learning_cb, normal_cb) ==
    (IF is_learning /\ learning_cb
     THEN <<LearningCall(r.decode_type, r.value, r.bits,
                         NamePrefixIR \o Hex(r.value))>>
     ELSE << >>)
    \o (IF normal_cb /\ ~is_learning
        THEN <<NormalCall(r.decode_type, r.value, r.bits)>> ELSE << >>)

\* xingzhi ProcessIrTask: is_valid.
IsValid(r) ==
    /\ ~(r.bits > MAX_RESULT_BITS)
    /\ ~(r.decode_type < 0 \/ r.decode_type > MAX_DECODE_TYPE)

\* A dispatch that tests learning_mode_ again for the normal callback
\* instead of the loaded is_learning.
XingzhiCallsResampled(r, is_learning, learning_cb, raw_cb, normal_cb) ==
    IF ~IsValid(r) /\ is_learning
    THEN IF r.rawlen > 0 /\ raw_cb
         THEN <<RawLearningCall(r.rawlen,
                    NamePrefixRAW \o HexPad(r.rawlen % UINT16_MOD, 4))>>
         ELSE << >>
    ELSE IF ~IsValid(r) THEN << >>
    ELSE IF r.decode_type # UNKNOWN
    THEN (IF is_learning /\ learning_cb
          THEN <<LearningCall(r.decode_type, r.value, r.bits,
                     NamePrefixIR \o HexPad(r.value % (2^24), 6))>>
          ELSE << >>)
         \o (IF is_learning /\ raw_cb /\ r.rawlen > 0
             THEN <<RawLearningCall(r.rawlen,
                        NamePrefixRAW \o HexPad(r.value % (2^24), 6))>>
             ELSE << >>)
         \o (IF normal_cb /\ ~learning_mode_
             THEN <<NormalCall(r.decode_type, r.value, r.bits)>>
             ELSE << >>)
    ELSE << >>

\* xingzhi ProcessIrTask: the calls made for a result with the loaded
\* is_learning and the callbacks as set (rawbuf is not null and the copy of
\* the raw buffer is allocated).
XingzhiCalls(r, is_learning, learning_cb, raw_cb, normal_cb) ==
    IF ~IsValid(r) /\ is_learning
    THEN IF r.rawlen > 0 /\ raw_cb
         THEN <<RawLearningCall(r.rawlen,
                    NamePrefixRAW \o HexPad(r.rawlen % UINT16_MOD, 4))>>
         ELSE << >>
    ELSE IF ~IsValid(r) THEN << >>
    ELSE IF r.decode_type # UNKNOWN
    THEN (IF is_learning /\ learning_cb
          THEN <<LearningCall(r.decode_type, r.value, r.bits,
                     NamePrefixIR \o HexPad(r.value % (2^24), 6))>>
          ELSE << >>)
         \o (IF is_learning /\ raw_cb /\ r.rawlen > 0
             THEN <<RawLearningCall(r.rawlen,
                        NamePrefixRAW \o HexPad(r.value % (2^24), 6))>>
             ELSE << >>)
         \o (IF normal_cb /\ ~is_learning
             THEN <<NormalCall(r.decode_type, r.value, r.bits)>>
             ELSE << >>)
    ELSE IF is_learning /\ r.bits >= MIN_UNKNOWN_BITS
            /\ r.bits <= MAX_RESULT_BITS /\ r.value # 0 /\ learning_cb
    THEN <<LearningCall(r.decode_type, r.value, r.bits,
               NamePrefixUNK \o HexPad(r.value % UINT16_MOD, 4))>>
    ELSE << >>

\* The lambda self.ir.start_learning installs: SaveLearnedCode of every call
\* made on the learning callback.
RECURSIVE SaveCalls(_, _)
SaveCalls(s, calls) ==
    IF calls = << >> THEN s
    ELSE IF Head(calls).callback = "learning_callback_"
    THEN SaveCalls(SaveLearnedCode_zhengchen(s, Head(calls).name,
                       Head(calls).protocol, Head(calls).value,
                       Head(calls).bits),
                   Tail(calls))
    ELSE SaveCalls(s, Tail(calls))

\* The results the decoder hands over: UNKNOWN, NEC, the last and the first
\* beyond the accepted decode types; a repeat's 0 bits, 8, 64 and 65 bits.
DecodeTypes == {UNKNOWN, NEC, MAX_DECODE_TYPE, MAX_DECODE_TYPE + 1}

DecodeBits == {0, MIN_UNKNOWN_BITS, MAX_RESULT_BITS, MAX_RESULT_BITS + 1}

DecodeValues == {0, 28036591}

DecodeRawLens == {0, 4}

DecodeResults ==
    [decode_type : DecodeTypes, value : DecodeValues, bits : DecodeBits,
     rawlen : DecodeRawLens]

InitReceive ==
    /\ nvs = EmptyNvs
    /\ hasTx = FALSE
    /\ tx = << >>
    /\ ret = [op |-> "IrReceiver", name |-> EmptyStr, val |-> "void"]
    /\ steps = 0
    /\ StripIdle
    /\ TeardownIdle
    /\ MutexIdle
    /\ SaversIdle
    /\ RunIdle
    /\ SessionIdle
    /\ ir_learn_semaphore_ = "empty"
    /\ ReceiveIdle
    /\ \/ /\ board = "zhengchen"
          /\ learning_callback_ = FALSE
          /\ raw_learning_callback_ = FALSE
          /\ callback_ = TRUE
       \/ /\ board = "xingzhi"
          /\ learning_callback_ \in BOOLEAN
          /\ raw_learning_callback_ \in BOOLEAN
          /\ callback_ \in BOOLEAN

ReceiveOnly ==
    UNCHANGED <<hasTx, tx, ret, steps, sessionVars, runVars, savers,
                mutexVars, teardownVars, stripVars, board>>

\* self.ir.start_learning: SetLearningMode(true).
StartLearning ==
    /\ board = "zhengchen"
    /\ mcp = "idle"
    /\ learning_mode_' = TRUE
    /\ mcp' = "SetLearningCallback"
    /\ task' = [task EXCEPT !.disarmed = FALSE]
    /\ UNCHANGED <<nvs, learning_callback_, raw_learning_callback_,
                   callback_, results, delivered>>
    /\ ReceiveOnly

\* self.ir.start_learning: SetLearningCallback(the saving lambda), return.
InstallCallback ==
    /\ board = "zhengchen"
    /\ mcp = "SetLearningCallback"
    /\ learning_callback_' = TRUE
    /\ mcp' = "idle"
    /\ UNCHANGED <<nvs, learning_mode_, raw_learning_callback_, callback_,
                   results, task, delivered>>
    /\ ReceiveOnly

\* self.ir.stop_learning: SetLearningMode(false).
StopLearning ==
    /\ board = "zhengchen"
    /\ mcp = "idle"
    /\ learning_mode_' = FALSE
    /\ task' = [task EXCEPT !.armed = FALSE]
    /\ UNCHANGED <<nvs, learning_callback_, raw_learning_callback_,
                   callback_, results, delivered, mcp>>
    /\ ReceiveOnly

\* xingzhi IrReceiver::SetLearningMode(enabled).
SetLearningMode ==
    \E enabled \in BOOLEAN :
        /\ board = "xingzhi"
        /\ learning_mode_' = enabled
        /\ task' = IF enabled THEN [task EXCEPT !.disarmed = FALSE]
                   ELSE [task EXCEPT !.armed = FALSE]
        /\ UNCHANGED <<nvs, learning_callback_, raw_learning_callback_,
                       callback_, results, delivered, mcp>>
        /\ ReceiveOnly

\* zhengchen ProcessIrTask: decode() returns a result; an UNKNOWN one is
\* logged and the receiver resumed.
ZhengchenDecode ==
    \E r \in DecodeResults :
        /\ board = "zhengchen"
        /\ task.pc = "decode"
        /\ task.count < MaxSignals
        /\ results' = r
        /\ delivered' = << >>
        /\ task' = [pc |-> IF r.decode_type # UNKNOWN THEN "load"
                           ELSE "decode",
                    is_learning |-> FALSE,
                    count |-> task.count + 1,
                    armed |-> learning_mode_ /\ learning_callback_
                              /\ mcp = "idle",
                    disarmed |-> ~learning_mode_ /\ mcp = "idle"]
        /\ UNCHANGED <<nvs, learning_mode_, learning_callback_,
                       raw_learning_callback_, callback_, mcp>>
        /\ ReceiveOnly

\* zhengchen ProcessIrTask: bool is_learning = learning_mode_.load().
ZhengchenLoad ==
    /\ board = "zhengchen"
    /\ task.pc = "load"
    /\ task' = [task EXCEPT !.pc = "dispatch", !.is_learning = learning_mode_]
    /\ UNCHANGED <<nvs, learning_mode_, learning_callback_,
                   raw_learning_callback_, callback_, results, delivered,
                   mcp>>
    /\ ReceiveOnly

\* zhengchen ProcessIrTask: the copy of learning_callback_ under the mutex,
\* the calls (the learning callback saves the code), resume().
ZhengchenDispatch ==
    /\ board = "zhengchen"
    /\ task.pc = "dispatch"
    /\ delivered' = ZhengchenCalls(results, task.is_learning,
                                   learning_callback_, callback_)
    /\ nvs' = SaveCalls(nvs, delivered')
    /\ task' = [task EXCEPT !.pc = "decode"]
    /\ UNCHANGED <<learning_mode_, learning_callback_,
                   raw_learning_callback_, callback_, results, mcp>>
    /\ ReceiveOnly

\* xingzhi ProcessIrTask: decode() returns a result and is_learning is
\* loaded.
XingzhiDecode ==
    \E r \in DecodeResults :
        /\ board = "xingzhi"
        /\ task.pc = "decode"
        /\ task.count < MaxSignals
        /\ results' = r
        /\ delivered' = << >>
        /\ task' = [pc |-> "dispatch",
                    is_learning |-> learning_mode_,
                    count |-> task.count + 1,
                    armed |-> learning_mode_,
                    disarmed |-> ~learning_mode_]
        /\ UNCHANGED <<nvs, learning_mode_, learning_callback_,
                       raw_learning_callback_, callback_, mcp>>
        /\ ReceiveOnly

\* xingzhi ProcessIrTask: the validation, the copies of the callbacks under
\* the mutex, the calls, resume().
XingzhiDispatch ==
    /\ board = "xingzhi"
    /\ task.pc = "dispatch"
    /\ delivered' = XingzhiCalls(results, task.is_learning,
                                 learning_callback_, raw_learning_callback_,
                                 callback_)
    /\ task' = [task EXCEPT !.pc = "decode"]
    /\ UNCHANGED <<nvs, learning_mode_, learning_callback_,
                   raw_learning_callback_, callback_, results, mcp>>
    /\ ReceiveOnly

NextReceive ==
    \/ StartLearning
    \/ InstallCallback
    \/ StopLearning
    \/ SetLearningMode
    \/ ZhengchenDecode
    \/ ZhengchenLoad
    \/ ZhengchenDispatch
    \/ XingzhiDecode
    \/ XingzhiDispatch

SpecReceive == InitReceive /\ [][NextReceive]_vars

\* A step that ends the processing of a result.
Processed ==
    /\ task'.pc = "decode"
    /\ task.pc = "dispatch" \/ task'.count # task.count

\* The calls of a sequence made on the callback of a name.
CallsOn(calls, callback) ==
    SelectSeq(calls, LAMBDA c : c.callback = callback)


\* C13: on the zhengchen board, every result decoded while learning mode is
\* enabled with the callback of start_learning installed (and not stopped
\* before the result is processed) makes exactly one call of the learning
\* callback, which saves the result's protocol, value and bits under
\* "IR_<value in hex>", and list_codes then holds that name with that
\* record.
C13_ArmedToCaptured ==
    [][(board = "zhengchen" /\ Processed /\ task'.armed) =>
         \A name \in {NamePrefixIR \o Hex(results'.value)} :
             /\ delivered' = <<LearningCall(results'.decode_type,
                                  results'.value, results'.bits, name)>>
             /\ nvs' = SaveLearnedCode_zhengchen(nvs, name,
                           results'.decode_type, results'.value,
                           results'.bits)
             /\ \E i \in DOMAIN GetLearnedCodes_zhengchen(nvs') :
                    GetLearnedCodes_zhengchen(nvs')[i] =
                        [name |-> name,
                         data |-> FormatCode(results'.decode_type,
                                      results'.value, results'.bits)]]_vars

\* C15: a result decoded after SetLearningMode(false) has returned, with
\* learning mode not enabled again before the result is processed, makes no
\* call of the learning callbacks and leaves the code store as it was; with
\* a decode type and a bit count the task accepts it is passed to the normal
\* callback, if one is set.
C15_StopDisarms ==
    [][(Processed /\ task'.disarmed) =>
         /\ CallsOn(delivered', "learning_callback_") = << >>
         /\ CallsOn(delivered', "raw_learning_callback_") = << >>
         /\ nvs' = nvs
         /\ (/\ callback_
             /\ results'.decode_type \in 0..MAX_DECODE_TYPE
             /\ results'.bits <= MAX_RESULT_BITS) =>
                delivered' = <<NormalCall(results'.decode_type,
                                  results'.value, results'.bits)>>]_vars

\* A first result was saved by the learning callback; stop_learning was
\* called; the second result went to the normal callback only.
C15_Witness ==
    /\ board = "zhengchen"
    /\ task.pc = "decode"
    /\ task.count = 2
    /\ task.disarmed
    /\ learning_callback_
    /\ nvs # EmptyNvs
    /\ delivered = <<NormalCall(results.decode_type, results.value,
                                results.bits)>>

\* C20: on the xingzhi board a result whose bits are not in 1..64 or whose
\* decode type is not in 0..100 is passed neither to the normal callback nor
\* to the protocol learning callback.
C20_InvalidRejected ==
    [][(/\ board = "xingzhi"
        /\ Processed
        /\ \/ results'.bits \notin 1..MAX_RESULT_BITS
           \/ results'.decode_type \notin 0..MAX_DECODE_TYPE) =>
         /\ CallsOn(delivered', "callback_") = << >>
         /\ CallsOn(delivered', "learning_callback_") = << >>]_vars

-----------------------------------------------------------------------------
(* C21 - C30: unidentified codes, JSON texts, Start and Stop, concurrent    *)
(* saves, the handoff queue, the callback mutex, the teardown of the board. *)

\* C21: on the xingzhi board, a result with decode type UNKNOWN, 8..64 bits
\* and a value other than 0, processed in learning mode with a learning
\* callback set, is passed to the learning callback with its protocol,
\* value and bits.
C21_UnknownPassedToLearning ==
    [][(/\ board = "xingzhi"
        /\ Processed
        /\ task'.is_learning
        /\ learning_callback_
        /\ results'.decode_type = UNKNOWN
        /\ results'.bits \in MIN_UNKNOWN_BITS..MAX_RESULT_BITS
        /\ results'.value # 0) =>
         \E name \in {NamePrefixUNK \o HexPad(results'.value % UINT16_MOD, 4)} :
             CallsOn(delivered', "learning_callback_") =
                 <<LearningCall(UNKNOWN, results'.value, results'.bits, name)>>]_vars

-----------------------------------------------------------------------------
(* The JSON texts of the command surface of the zhengchen board:           *)
(* self.ir.save_code and self.ir.list_codes.  A character below 0x20 is     *)
(* written "<hh>", hh its code in hex.                                      *)

Quote == "\""

Backslash == "\\"

\* The characters below 0x20 that names are drawn with, and their codes.
ControlChars == {"<01>", "<08>", "<09>", "<0a>", "<0c>", "<0d>", "<1f>"}

ControlCode(c) ==
    CASE c = "<01>" -> 1 [] c = "<08>" -> 8 [] c = "<09>" -> 9
      [] c = "<0a>" -> 10 [] c = "<0c>" -> 12 [] c = "<0d>" -> 13
      [] c = "<1f>" -> 31

\* EscapeJsonString: what one character is replaced with.
EscapeJsonChar(c) ==
    CASE c = Quote -> <<Backslash, Quote>>
      [] c = Backslash -> <<Backslash, Backslash>>
      [] c = "<08>" -> <<Backslash, "b">>
      [] c = "<0c>" -> <<Backslash, "f">>
      [] c = "<0a>" -> <<Backslash, "n">>
      [] c = "<0d>" -> <<Backslash, "r">>
      [] c = "<09>" -> <<Backslash, "t">>
      [] OTHER -> IF c \in ControlChars
                  THEN <<Backslash, "u">> \o HexPad(ControlCode(c), 4)
                  ELSE <<c>>

\* EscapeJsonString(str)
RECURSIVE EscapeJsonString(_)
EscapeJsonString(str) ==
    IF str = EmptyStr THEN EmptyStr
    ELSE EscapeJsonChar(Head(str)) \o EscapeJsonString(Tail(str))

CodesOpenLit ==
    <<"{", "\"", "c", "o", "d", "e", "s", "\"", ":", "[">>

CodesCloseLit == <<"]", "}">>

NameLit ==
    <<"{", "\"", "n", "a", "m", "e", "\"", ":", "\"">>

DataLit ==
    <<"\"", ",", "\"", "d", "a", "t", "a", "\"", ":">>

\* zhengchen GetLearnedCodes(): json += "{\"name\":\"" + escaped_name +
\* "\",\"data\":" + code_value + "}", the entries separated by commas.
RECURSIVE JsonEntries(_)
JsonEntries(entries) ==
    IF entries = << >> THEN EmptyStr
    ELSE NameLit \o EscapeJsonString(Head(entries).name) \o DataLit
             \o Head(entries).data \o CloseLit
             \o (IF Len(entries) > 1 THEN <<Comma>> ELSE EmptyStr)
             \o JsonEntries(Tail(entries))

\* zhengchen GetLearnedCodes(): the text returned.
GetLearnedCodesJson_zhengchen(s) ==
    CodesOpenLit \o JsonEntries(GetLearnedCodes_zhengchen(s)) \o CodesCloseLit

HexDigitChars == {HexChars[i] : i \in 1..16}

\* The digits std::stoull(str, nullptr, 16) converts: those str begins with
\* (inputs have no white space, sign or 0x prefix and fit 64 bits).
RECURSIVE HexRun(_)
HexRun(str) ==
    IF str # EmptyStr /\ Head(str) \in HexDigitChars
    THEN <<Head(str)>> \o HexRun(Tail(str)) ELSE EmptyStr

RECURSIVE HexValue(_)
HexValue(digits) ==
    IF digits = EmptyStr THEN 0
    ELSE HexValue(SubSeq(digits, 1, Len(digits) - 1)) * 16
         + (CHOOSE i \in 1..16 : HexChars[i] = digits[Len(digits)]) - 1

\* std::stoull(value_str, nullptr, 16): throws where no digit is converted.
Stoull16(value_str) ==
    [ok |-> HexRun(value_str) # EmptyStr, value |-> HexValue(HexRun(value_str))]

SaveErrorLit ==
    <<"{", "\"", "s", "t", "a", "t", "u", "s", "\"", ":", "\"", "e", "r",
      "r", "o", "r", "\"", ",", "\"", "m", "e", "s", "s", "a", "g", "e",
      "\"", ":", "\"", "I", "n", "v", "a", "l", "i", "d", " ", "v", "a",
      "l", "u", "e", " ", "f", "o", "r", "m", "a", "t", ".", " ", "U", "s",
      "e", " ", "h", "e", "x", " ", "s", "t", "r", "i", "n", "g", " ", "(",
      "e", ".", "g", ".", ",", " ", "0", "x", "F", "F", "0", "0", ")",
      "\"", "}">>

SaveSuccessLit ==
    <<"{", "\"", "s", "t", "a", "t", "u", "s", "\"", ":", "\"", "s", "u",
      "c", "c", "e", "s", "s", "\"", ",", "\"", "m", "e", "s", "s", "a",
      "g", "e", "\"", ":", "\"">>

SavedLit ==
    <<"I", "R", " ", "c", "o", "d", "e", " ", "s", "a", "v", "e", "d", ":",
      " ">>

StringCloseLit == <<Quote, "}">>

\* self.ir.save_code: "{\"status\":\"success\",\"message\":\"IR code saved: "
\* + name + "\"}"
SaveCodeMessage(name) ==
    SaveSuccessLit \o SavedLit \o name \o StringCloseLit

\* self.ir.save_code (ir_receiver_ not null): the namespace left and the
\* text returned.
SaveCodeTool(s, name, protocol, value_str, bits) ==
    IF ~Stoull16(value_str).ok THEN [nvs |-> s, text |-> SaveErrorLit]
    ELSE [nvs |-> SaveLearnedCode_zhengchen(s, name, protocol,
                      Stoull16(value_str).value, bits),
          text |-> SaveCodeMessage(name)]

\* The names given to save_code: plain, and with a double quote, a
\* backslash, a line feed and the character 0x01.
JsonNameSet ==
    {<<"t", "v">>, <<"a", Quote, "b">>, <<Backslash, "n">>,
     <<"a", "<0a>", "b">>, <<"<01>">>}

SaveValueStrings == {<<"f", "f", "0", "0">>, <<"z">>}

InitJson ==
    /\ nvs = EmptyNvs
    /\ hasTx = FALSE
    /\ tx = << >>
    /\ ret = [op |-> "IrReceiver", name |-> EmptyStr, val |-> EmptyStr]
    /\ steps = 0
    /\ BoardIdle

\* self.ir.save_code
DoSaveCode ==
    \E name \in JsonNameSet, value_str \in SaveValueStrings :
        \E r \in {SaveCodeTool(nvs, name, NEC, value_str, 32)} :
            /\ nvs' = r.nvs
            /\ ret' = [op |-> "save_code", name |-> name, val |-> r.text]
            /\ UNCHANGED <<hasTx, tx, steps, boardVars>>

\* self.ir.list_codes
DoListCodes ==
    /\ ret' = [op |-> "list_codes", name |-> EmptyStr,
               val |-> GetLearnedCodesJson_zhengchen(nvs)]
    /\ UNCHANGED <<nvs, hasTx, tx, steps, boardVars>>

NextJson == DoSaveCode \/ DoListCodes

SpecJson == InitJson /\ [][NextJson]_vars

\* A reader of JSON: the string that starts at text[p], behind its opening
\* quote; the string read, and the position behind its closing quote.
RECURSIVE ReadJsonString(_, _, _)
ReadJsonString(text, p, acc) ==
    IF p > Len(text) \/ text[p] \in ControlChars
    THEN [ok |-> FALSE, str |-> acc, next |-> p]
    ELSE IF text[p] = Quote THEN [ok |-> TRUE, str |-> acc, next |-> p + 1]
    ELSE IF text[p] # Backslash
    THEN ReadJsonString(text, p + 1, Append(acc, text[p]))
    ELSE IF p + 1 > Len(text) THEN [ok |-> FALSE, str |-> acc, next |-> p]
    ELSE IF text[p + 1] \in {Quote, Backslash, "/"}
    THEN ReadJsonString(text, p + 2, Append(acc, text[p + 1]))
    ELSE IF text[p + 1] \in {"b", "f", "n", "r", "t"}
    THEN ReadJsonString(text, p + 2,
             Append(acc, CASE text[p + 1] = "b" -> "<08>"
                           [] text[p + 1] = "f" -> "<0c>"
                           [] text[p + 1] = "n" -> "<0a>"
                           [] text[p + 1] = "r" -> "<0d>"
                           [] text[p + 1] = "t" -> "<09>"))
    ELSE IF /\ text[p + 1] = "u"
            /\ p + 5 <= Len(text)
            /\ \E c \in ControlChars :
                   SubSeq(text, p + 2, p + 5) = HexPad(ControlCode(c), 4)
    THEN ReadJsonString(text, p + 6,
             Append(acc, CHOOSE c \in ControlChars :
                        SubSeq(text, p + 2, p + 5) = HexPad(ControlCode(c), 4)))
    ELSE [ok |-> FALSE, str |-> acc, next |-> p]

\* The names of the entries of {"codes":[...]} from text[p] on, as a reader
\* of JSON finds them (the data of an entry is an object without objects
\* inside).
RECURSIVE ReadEntries(_, _, _)
ReadEntries(text, p, names) ==
    IF MatchLit(text, p, CodesCloseLit) /\ p + 1 = Len(text)
    THEN [ok |-> TRUE, names |-> names]
    ELSE IF ~MatchLit(text, p, NameLit) THEN [ok |-> FALSE, names |-> names]
    ELSE LET n == ReadJsonString(text, p + Len(NameLit), EmptyStr)
             d == n.next + Len(DataLit) - 1
             close == CHOOSE i \in d..Len(text) :
                          text[i] = "}" /\ \A j \in d..(i - 1) : text[j] # "}"
         IN  IF ~n.ok \/ ~MatchLit(text, n.next - 1, DataLit)
                \/ ~(\E i \in d..Len(text) : text[i] = "}")
             THEN [ok |-> FALSE, names |-> names]
             ELSE IF ~MatchLit(text, close + 1, CloseLit)
             THEN [ok |-> FALSE, names |-> names]
             ELSE IF MatchLit(text, close + 2, <<Comma>>)
             THEN ReadEntries(text, close + 3, Append(names, n.str))
             ELSE ReadEntries(text, close + 2, Append(names, n.str))

ReadCodes(text) ==
    IF MatchLit(text, 1, CodesOpenLit)
    THEN ReadEntries(text, Len(CodesOpenLit) + 1, << >>)
    ELSE [ok |-> FALSE, names |-> << >>]

\* The message of a save_code reply, as a reader of JSON finds it.
ReadMessage(text) ==
    IF ~MatchLit(text, 1, SaveSuccessLit)
    THEN [ok |-> FALSE, str |-> EmptyStr]
    ELSE LET m == ReadJsonString(text, Len(SaveSuccessLit) + 1, EmptyStr)
         IN  [ok |-> m.ok /\ m.next = Len(text) /\ text[Len(text)] = "}",
              str |-> m.str]

\* C22: the text list_codes returns reads back, as JSON, to the names listed,
\* and the success message of save_code reads back to "IR code saved: " and
\* the name given: no quote, backslash or character below 0x20 of a name
\* stands unescaped in either.
C22_NamesEscaped ==
    [][/\ ret'.op = "list_codes" =>
           ReadCodes(ret'.val) =
               [ok |-> TRUE,
                names |-> [i \in 1..Len(GetLearnedCodes_zhengchen(nvs')) |->
                              GetLearnedCodes_zhengchen(nvs')[i].name]]
       /\ (ret'.op = "save_code" /\ ret'.val # SaveErrorLit) =>
           ReadMessage(ret'.val) = [ok |-> TRUE, str |-> SavedLit \o ret'.name]]_vars

-----------------------------------------------------------------------------
(* IrReceiver::Start and IrReceiver::Stop (xingzhi ir_receiver.cc; the      *)
(* zhengchen file differs in how task_handle_ is guarded), called one at a  *)
(* time, and the receive tasks they create.                                 *)

\* Number of calls of Start and Stop.
MaxCalls == 6

\* A Start that does not look at running_.
StartNeverReturnsEarly(running) == FALSE

\* Start: if (running_.load()) return;
StartReturnsEarly(running) == running

\* Stop: if (!running_.load()) return;
StopReturnsEarly(running) == ~running

InitRun ==
    /\ nvs = EmptyNvs
    /\ hasTx = FALSE
    /\ tx = << >>
    /\ ret = [op |-> "IrReceiver", name |-> EmptyStr, val |-> "void"]
    /\ steps = 0
    /\ BoardIdle

RunOnly ==
    UNCHANGED <<nvs, hasTx, tx, ret, steps, sessionVars, receiveVars, savers,
                mutexVars, teardownVars, stripVars>>

\* Start(), up to the return of xTaskCreate.  Whether the task is created
\* is the kernel's matter.
Start ==
    \E task_created \in BOOLEAN :
        /\ run.pc = "idle"
        /\ run_calls < MaxCalls
        /\ run_calls' = run_calls + 1
        /\ IF StartReturnsEarly(running_)
           THEN /\ run' = [pc |-> "idle", op |-> "Start",
                           was_running |-> running_, handle |-> 0]
                /\ UNCHANGED <<running_, task_handle_, live, created>>
           ELSE IF ~task_created
           THEN /\ run' = [pc |-> "idle", op |-> "Start",
                           was_running |-> running_, handle |-> 0]
                /\ running_' = FALSE
                /\ UNCHANGED <<task_handle_, live, created>>
           ELSE /\ run' = [pc |-> "store", op |-> "Start",
                           was_running |-> running_, handle |-> created + 1]
                /\ running_' = TRUE
                /\ live' = live \cup {created + 1}
                /\ created' = created + 1
                /\ UNCHANGED task_handle_
        /\ RunOnly

\* Start(): task_handle_ = new_handle, under task_handle_mutex_.
StartStoreHandle ==
    /\ run.pc = "store"
    /\ task_handle_' = run.handle
    /\ run' = [run EXCEPT !.pc = "idle"]
    /\ UNCHANGED <<running_, live, created, run_calls>>
    /\ RunOnly

\* Stop(), up to the copy of task_handle_.
Stop ==
    /\ run.pc = "idle"
    /\ run_calls < MaxCalls
    /\ run_calls' = run_calls + 1
    /\ IF StopReturnsEarly(running_)
       THEN /\ run' = [pc |-> "idle", op |-> "Stop",
                       was_running |-> running_, handle |-> 0]
            /\ UNCHANGED running_
       ELSE /\ run' = [pc |-> IF task_handle_ = 0 THEN "idle" ELSE "wait",
                       op |-> "Stop", was_running |-> running_,
                       handle |-> task_handle_]
            /\ running_' = FALSE
    /\ UNCHANGED <<task_handle_, live, created>>
    /\ RunOnly

\* Stop(): the wait ends, because task_handle_ is null or after ten delays
\* of 100 ms, and task_handle_ is cleared.
StopWaitEnds ==
    /\ run.pc = "wait"
    /\ task_handle_' = 0
    /\ run' = [run EXCEPT !.pc = "idle"]
    /\ UNCHANGED <<running_, live, created, run_calls>>
    /\ RunOnly

\* IrTask: ProcessIrTask has left its loop on running_ false; the task
\* clears task_handle_ and deletes itself.
TaskExits ==
    \E t \in live :
        /\ ~running_
        /\ live' = live \ {t}
        /\ task_handle_' = 0
        /\ UNCHANGED <<running_, created, run, run_calls>>
        /\ RunOnly

NextRun ==
    \/ Start
    \/ StartStoreHandle
    \/ Stop
    \/ StopWaitEnds
    \/ TaskExits

SpecRun == InitRun /\ [][NextRun]_vars

\* C23: a Start() made while the receiver is running creates no task and
\* changes nothing, and a Stop() made while it is not running (so every
\* second Stop()) returns at once and changes nothing.
C23_StartStopIdempotent ==
    [][/\ (run_calls' # run_calls /\ run'.op = "Start" /\ running_) =>
            /\ UNCHANGED <<running_, task_handle_, live, created>>
            /\ run'.pc = "idle"
       /\ (run_calls' # run_calls /\ run'.op = "Stop" /\ ~running_) =>
            /\ UNCHANGED <<running_, task_handle_, live, created>>
            /\ run'.pc = "idle"]_vars

\* Start() was called on a running receiver and there is the one task.
C23_Witness ==
    /\ run = [pc |-> "idle", op |-> "Start", was_running |-> TRUE, handle |-> 0]
    /\ running_
    /\ live = {1}
    /\ created = 1
    /\ task_handle_ = 1

-----------------------------------------------------------------------------
(* Saves from two contexts of the zhengchen board.  start_learning installs *)
(* a learning callback that calls SaveLearnedCode in the receive task;      *)
(* self.ir.save_code calls SaveLearnedCode in the context of the command.   *)
(* SaveLearnedCode takes no lock: its three accesses of the namespace are   *)
(* steps of their own.                                                      *)

\* Number of saves made from one context.
MaxSaves == 2

Savers == {"ir_task", "save_code"}

\* The values the receive task learns, saved as IR_<hex>.
LearnedValues == {65280, 43981}

\* The names given to self.ir.save_code.
SaveCodeNames == {<<"t", "v">>, <<"f", "a", "n">>}

InitSave ==
    /\ nvs = EmptyNvs
    /\ hasTx = FALSE
    /\ tx = << >>
    /\ ret = [op |-> "IrReceiver", name |-> EmptyStr, val |-> "void"]
    /\ steps = 0
    /\ BoardIdle

SaveOnly ==
    UNCHANGED <<hasTx, tx, ret, steps, sessionVars, receiveVars, runVars,
                mutexVars, teardownVars, stripVars>>

\* SaveLearnedCode is entered: by the learning callback with the default
\* name of the code, by self.ir.save_code with the name given.
EnterSave(w) ==
    \E value \in LearnedValues, given \in SaveCodeNames :
        LET name == IF w = "ir_task" THEN NamePrefixIR \o Hex(value) ELSE given
        IN  /\ savers[w].pc = "idle"
            /\ Len(savers[w].saved) < MaxSaves
            /\ savers' = [savers EXCEPT ![w] =
                   [@ EXCEPT !.pc = "record",
                             !.name = Prefix(name, ZHENGCHEN_MAX_NAME_LENGTH),
                             !.value = value]]
            /\ UNCHANGED nvs
            /\ SaveOnly

\* SaveLearnedCode: the key is built and the record is written.
SaveSetRecord(w) ==
    LET code_key == MakeKey(CodePrefix, savers[w].name, ZHENGCHEN_KEY_SIZE)
    IN  /\ savers[w].pc = "record"
        /\ IF ~code_key.ok
           THEN /\ savers' = [savers EXCEPT ![w].pc = "idle"]
                /\ UNCHANGED nvs
           ELSE /\ nvs' = SetString(nvs, code_key.key,
                                    FormatCode(NEC, savers[w].value, 32))
                /\ savers' = [savers EXCEPT ![w].pc = "read"]
        /\ SaveOnly

\* SaveLearnedCode: code_list = settings.GetString("code_list", "").
SaveGetList(w) ==
    /\ savers[w].pc = "read"
    /\ savers' = [savers EXCEPT ![w].pc = "write",
                                ![w].code_list = GetString(nvs, CodeListKey, EmptyStr)]
    /\ UNCHANGED nvs
    /\ SaveOnly

\* SaveLearnedCode: the name is looked for in the local code_list and, if it
\* is not there, appended, and the list is written.
SaveSetList(w) ==
    LET code_list == savers[w].code_list
        names == Tokens(code_list)
        name_exists ==
            \E i \in 1..Len(names) :
                Prefix(names[i], ZHENGCHEN_MAX_NAME_LENGTH) = savers[w].name
    IN  /\ savers[w].pc = "write"
        /\ nvs' = IF name_exists THEN nvs
                  ELSE SetString(nvs, CodeListKey,
                                 AppendName(code_list, savers[w].name))
        /\ savers' = [savers EXCEPT ![w].pc = "idle",
                                    ![w].saved = Append(@, savers[w].name)]
        /\ SaveOnly

NextSave ==
    \/ \E w \in Savers : EnterSave(w)
    \/ \E w \in Savers : SaveSetRecord(w)
    \/ \E w \in Savers : SaveGetList(w)
    \/ \E w \in Savers : SaveSetList(w)

SpecSave == InitSave /\ [][NextSave]_vars

\* The names whose save has returned.
SavedNames ==
    UNION {{savers[w].saved[i] : i \in 1..Len(savers[w].saved)} : w \in Savers}

\* C24: saves made from the receive task and from the command context at
\* the same time lose no name: when no save is in progress, every name
\* whose save has returned is in code_list.
C24_ConcurrentSavesKeepBoth ==
    (\A w \in Savers : savers[w].pc = "idle") =>
        \A name \in SavedNames :
            \E i \in 1..Len(IndexNames(nvs)) : IndexNames(nvs)[i] = name

-----------------------------------------------------------------------------
(* The protocol decoder of the capture backend with manual decoding         *)
(* (class IRReceiver, used by the xingzhi board).  Decode is a function of  *)
(* the timing sequence: durations in microseconds, mark and space in turn.  *)

\* The timing templates and tolerances of the three protocols.
NecTiming ==
    [header_mark |-> 9000, header_space |-> 4500, bit_mark |-> 560,
     one_space |-> 1690, zero_space |-> 560, tolerance |-> 200, bits |-> 32]

Rc5Timing == [bit |-> 1778, half |-> 889, tolerance |-> 300, bits |-> 14]

SonyTiming ==
    [header_mark |-> 2400, header_space |-> 600, bit_mark |-> 600,
     one_space |-> 1200, zero_space |-> 600, tolerance |-> 200, bits |-> 12]

\* A duration within the tolerance band of a template.
Within(d, template, tolerance) ==
    d >= template - tolerance /\ d <= template + tolerance

\* A value of up to 32 bits, as its high and low halves of 16 bits.
Word(hi, lo) == [hi |-> hi, lo |-> lo]

\* The number written by the bits b[from..to], the first the most
\* significant.
RECURSIVE BitsNumber(_, _, _)
BitsNumber(b, from, to) ==
    IF to < from THEN 0 ELSE 2 * BitsNumber(b, from, to - 1) + b[to]

\* The value of the bits b[1..n], the first the most significant.
BitsValue(b, n) ==
    IF n <= 16 THEN Word(0, BitsNumber(b, 1, n))
    ELSE Word(BitsNumber(b, 1, n - 16), BitsNumber(b, n - 15, n))

\* Bit k of a value, bit 0 the least significant.
BitOf(value, k) ==
    IF k >= 16 THEN (value.hi \div 2 ^ (k - 16)) % 2 ELSE (value.lo \div 2 ^ k) % 2

\* A matcher of a protocol with a header pair and bits told by the space
\* after a fixed mark: the header is validated, then every pulse; one pulse
\* out of tolerance aborts the match.
SpaceCodedMatch(seq, t) ==
    LET BitOk(i) ==
            /\ Within(seq[2 * i + 1], t.bit_mark, t.tolerance)
            /\ \/ Within(seq[2 * i + 2], t.one_space, t.tolerance)
               \/ Within(seq[2 * i + 2], t.zero_space, t.tolerance)
        ok == /\ Len(seq) >= 2 + 2 * t.bits
              /\ Within(seq[1], t.header_mark, t.tolerance)
              /\ Within(seq[2], t.header_space, t.tolerance)
              /\ \A i \in 1..t.bits : BitOk(i)
        b == [i \in 1..t.bits |->
                IF Within(seq[2 * i + 2], t.one_space, t.tolerance) THEN 1 ELSE 0]
    IN  IF ok THEN [ok |-> TRUE, value |-> BitsValue(b, t.bits), bits |-> t.bits]
        ELSE [ok |-> FALSE, value |-> Word(0, 0), bits |-> 0]

\* The half-symbols of the durations seq[p..n] of a Manchester sequence, all
\* within tolerance: 1 for a mark, 0 for a space, a duration of one bit
\* standing for two.
RECURSIVE HalfSymbols(_, _, _)
HalfSymbols(seq, p, n) ==
    IF p > n THEN << >>
    ELSE IF Within(seq[p], Rc5Timing.half, Rc5Timing.tolerance)
    THEN <<p % 2>> \o HalfSymbols(seq, p + 1, n)
    ELSE <<p % 2, p % 2>> \o HalfSymbols(seq, p + 1, n)

\* The RC5 matcher: the frame begins with the low half of the first bit,
\* which the capture does not show; a bit is 1 where its first half is low.
\* A frame takes at most two durations a bit; one duration of these out of
\* tolerance aborts the match.
Rc5Match(seq) ==
    LET n == Rc5Timing.bits
        used == IF Len(seq) < 2 * n THEN Len(seq) ELSE 2 * n
        in_tolerance ==
            \A p \in 1..used :
                \/ Within(seq[p], Rc5Timing.half, Rc5Timing.tolerance)
                \/ Within(seq[p], Rc5Timing.bit, Rc5Timing.tolerance)
        h == <<0>> \o HalfSymbols(seq, 1, used)
        ok == /\ in_tolerance
              /\ Len(h) >= 2 * n
              /\ \A i \in 1..n : h[2 * i - 1] # h[2 * i]
        b == [i \in 1..n |-> IF h[2 * i - 1] = 0 THEN 1 ELSE 0]
    IN  IF ok THEN [ok |-> TRUE, value |-> BitsValue(b, n), bits |-> n]
        ELSE [ok |-> FALSE, value |-> Word(0, 0), bits |-> 0]

\* The matcher of a protocol.
Match(protocol, seq) ==
    IF protocol = NEC THEN SpaceCodedMatch(seq, NecTiming)
    ELSE IF protocol = RC5 THEN Rc5Match(seq)
    ELSE SpaceCodedMatch(seq, SonyTiming)

\* A chain that tries RC5 before NEC.
DecoderChainRc5First == <<RC5, NEC, SONY>>

\* The decoding order.
DecoderChain == <<NEC, RC5, SONY>>

\* A decoder that takes only the empty sequence for too short.
TooShortOnlyEmpty(seq) == Len(seq) < 1

\* A sequence too short for any protocol.
TooShort(seq) == Len(seq) < 2

RawFallback(seq, tried) ==
    [kind |-> "RawFallback", sequence |-> seq, tried |-> tried]

DecodedCommand(protocol, m, tried) ==
    [kind |-> "DecodedCommand", protocol |-> protocol, value |-> m.value,
     bits |-> m.bits, tried |-> tried]

\* The chain from its k-th matcher on; tried are the protocols attempted.
RECURSIVE DecodeFrom(_, _, _)
DecodeFrom(seq, k, tried) ==
    IF k > Len(DecoderChain) THEN RawFallback(seq, tried)
    ELSE LET m == Match(DecoderChain[k], seq)
         IN  IF m.ok
             THEN DecodedCommand(DecoderChain[k], m, Append(tried, DecoderChain[k]))
             ELSE DecodeFrom(seq, k + 1, Append(tried, DecoderChain[k]))

\* Decode(sequence) -> DecodedCommand | RawFallback, with the protocols it
\* attempted.
Decode(seq) ==
    IF TooShort(seq) THEN RawFallback(seq, << >>)
    ELSE DecodeFrom(seq, 1, << >>)

\* Encode(protocol, value, bits) for a protocol told by its spaces: the
\* timing sequence at the templates.
SpaceCodedEncode(value, t) ==
    [p \in 1..(2 + 2 * t.bits) |->
        IF p = 1 THEN t.header_mark
        ELSE IF p = 2 THEN t.header_space
        ELSE IF p % 2 = 1 THEN t.bit_mark
        ELSE IF BitOf(value, t.bits - ((p - 2) \div 2)) = 1 THEN t.one_space
        ELSE t.zero_space]

NecEncode(value) == SpaceCodedEncode(value, NecTiming)

\* The 32-bit values encoded: 0, 1, 0x20DF10EF, 0xFFFFFFFF, 0x80000000,
\* 0xAAAAAAAA, 0x55555555, 0x00FF00FF.
NecValues ==
    {Word(0, 0), Word(0, 1), Word(8415, 4335), Word(65535, 65535),
     Word(32768, 0), Word(43690, 43690), Word(21845, 21845), Word(255, 255)}

\* The deviations from the template, by position: none, the whole
\* tolerance up, the whole down, up and down in turn, and in threes.
Jitters ==
    {[p \in 1..66 |-> 0], [p \in 1..66 |-> 200], [p \in 1..66 |-> -200],
     [p \in 1..66 |-> IF p % 2 = 0 THEN 200 ELSE -200],
     [p \in 1..66 |-> ((p % 3) - 1) * 200]}

\* NEC-conformant sequences: every duration within the tolerance.
NecConformant ==
    {[p \in 1..66 |-> NecEncode(v)[p] + j[p]] : v \in NecValues, j \in Jitters}

\* NEC sequences with one duration just out of tolerance.
NecOnePulseOff ==
    {[NecEncode(Word(8415, 4335)) EXCEPT ![p] = @ + 201] : p \in 1..66}

\* Sequences of fewer than two durations.
ShortSequences == {<< >>, <<9000>>, <<560>>, <<889>>, <<2400>>}

\* Frames of the other protocols, and noise.
OtherSequences ==
    {SpaceCodedEncode(Word(0, v), SonyTiming) : v \in {0, 21, 4095}}
        \cup {[p \in 1..28 |-> 889],
              <<889, 889, 1778, 1778, 889>> \o [p \in 1..20 |-> 889],
              <<9000, 4500>>, <<100, 100, 100, 100>>}

TimingSequences ==
    NecConformant \cup NecOnePulseOff \cup ShortSequences \cup OtherSequences

InitDecode ==
    /\ nvs = EmptyNvs
    /\ hasTx = FALSE
    /\ tx = << >>
    /\ ret = [op |-> "IRReceiver", name |-> EmptyStr, val |-> "void"]
    /\ steps = 0
    /\ BoardIdle

\* A capture is decoded.
DoDecode ==
    \E captured \in TimingSequences :
        LET seq == SubSeq(captured, 1, Len(captured))
        IN  /\ ret' = [op |-> "Decode", name |-> EmptyStr,
                       val |-> [sequence |-> seq, result |-> Decode(seq)]]
            /\ UNCHANGED <<nvs, hasTx, tx, steps, boardVars>>

NextDecode == DoDecode

SpecDecode == InitDecode /\ [][NextDecode]_vars

\* C25: for a timing sequence of fewer than two durations Decode returns
\* RawFallback with the sequence as given and attempts no protocol.
C25_ShortIsRawFallback ==
    (ret.op = "Decode" /\ Len(ret.val.sequence) < 2) =>
        ret.val.result = RawFallback(ret.val.sequence, << >>)

\* The sequence of one duration has been decoded.
C25_Witness ==
    /\ ret.op = "Decode"
    /\ ret.val.sequence = <<9000>>
    /\ ret.val.result.kind = "RawFallback"

\* C26: a NEC-conformant sequence generated from a 32-bit value, every
\* duration within the tolerance, decodes to NEC with that value and 32
\* bits; the protocols are attempted in the order NEC, RC5, Sony and the
\* first that matches gives the result.
C26_NecRoundTrip ==
    ret.op = "Decode" =>
        /\ \A v \in NecValues, j \in Jitters :
               ret.val.sequence = [p \in 1..66 |-> NecEncode(v)[p] + j[p]] =>
                   ret.val.result = [kind |-> "DecodedCommand", protocol |-> NEC,
                                     value |-> v, bits |-> 32, tried |-> <<NEC>>]
        /\ \E n \in 0..3 :
               /\ ret.val.result.tried = SubSeq(<<NEC, RC5, SONY>>, 1, n)
               /\ \A k \in 1..(n - 1) :
                      ~Match(ret.val.result.tried[k], ret.val.sequence).ok
               /\ ret.val.result.kind = "DecodedCommand" =>
                      /\ n >= 1
                      /\ ret.val.result.protocol = ret.val.result.tried[n]
                      /\ Match(ret.val.result.protocol, ret.val.sequence).ok

\* The sequence of 0x20DF10EF, every duration 200 us over its template, has
\* been decoded to NEC 0x20DF10EF.
C26_Witness ==
    /\ ret.op = "Decode"
    /\ ret.val.sequence = [p \in 1..66 |-> NecEncode(Word(8415, 4335))[p] + 200]
    /\ ret.val.result.kind = "DecodedCommand"
    /\ ret.val.result.protocol = NEC
    /\ ret.val.result.value = Word(8415, 4335)

-----------------------------------------------------------------------------
(* The handoff queue between the capture callback and ir_learn_task.        *)

\* C27: the capture callback can always run to its end (it waits for
\* nothing); the queue never holds more than five events; every step leaves
\* the queue as it was, or with one event appended while the session is
\* active and the queue has room, or with its oldest event taken by the
\* worker: an event that arrives at a full queue is dropped and the queued
\* ones are kept in their order.
C27_HandoffQueue ==
    [][/\ receiverRunning => ENABLED CaptureCallback
       /\ Len(ir_command_queue_') <= IR_COMMAND_QUEUE_LENGTH
       /\ \/ ir_command_queue_' = ir_command_queue_
          \/ /\ ir_learning_active_
             /\ Len(ir_command_queue_) < IR_COMMAND_QUEUE_LENGTH
             /\ \E event \in LearnEvents :
                    ir_command_queue_' = Append(ir_command_queue_, event)
          \/ /\ ir_command_queue_ # << >>
             /\ ir_command_queue_' = Tail(ir_command_queue_)
             /\ ir_learn_task.pc = "receive"
             /\ ir_learn_task'.command = Head(ir_command_queue_).command
             /\ ir_learn_task'.protocol = Head(ir_command_queue_).protocol]_vars

\* The queue is full of events that differ, the session is active and the
\* receiver runs: the next capture is dropped.
C27_Witness ==
    /\ Len(ir_command_queue_) = IR_COMMAND_QUEUE_LENGTH
    /\ ir_command_queue_[1] # ir_command_queue_[2]
    /\ ir_learning_active_
    /\ receiverRunning
    /\ arrived

-----------------------------------------------------------------------------
(* The mutex of the learning callbacks.  ProcessIrTask copies the callbacks *)
(* in a scope that holds learning_callback_mutex_ and calls the copies      *)
(* after the scope; SetLearningCallback and SetRawLearningCallback assign   *)
(* under the mutex.  A callback is told by its identity; the assignment of  *)
(* a std::function is not one step, and "torn" is the member between its    *)
(* beginning and its end.  In these definitions learning_callback_ and      *)
(* raw_learning_callback_ hold an identity, "null" for an empty function.   *)

Callbacks == {"null", "first", "second"}

\* The setters, by the member they assign.
Members == {"learning_callback_", "raw_learning_callback_"}

\* A scope that leaves the mutex held.
ScopeLeavesLocked(holder, context) == holder

\* The end of the scope of a std::lock_guard taken by context.
ScopeEnd(holder, context) == IF holder = context THEN "free" ELSE holder

InitMutex ==
    /\ nvs = EmptyNvs
    /\ hasTx = FALSE
    /\ tx = << >>
    /\ ret = [op |-> "IrReceiver", name |-> EmptyStr, val |-> "void"]
    /\ steps = 0
    /\ StripIdle
    /\ TeardownIdle
    /\ MutexIdle
    /\ SaversIdle
    /\ RunIdle
    /\ SessionIdle
    /\ ir_learn_semaphore_ = "null"
    /\ ReceiveIdle
    /\ board = "xingzhi"
    /\ learning_callback_ = "first"
    /\ raw_learning_callback_ = "null"
    /\ callback_ = FALSE

MutexOnly ==
    UNCHANGED <<nvs, hasTx, tx, ret, steps, sessionVars, runVars, savers,
                teardownVars, stripVars, board, learning_mode_, callback_,
                results, task, delivered, mcp>>

\* A setter is entered by context c (the learning callback, or another
\* context): std::lock_guard lock(learning_callback_mutex_) is next.
SetterEnter(c) ==
    \E member \in Members, value \in Callbacks :
        /\ lockers[c].pc = "idle"
        /\ c = "callback" => lockers.ir_task.pc = "in_callback"
        /\ lockers' = [lockers EXCEPT ![c] =
               [pc |-> "lock", member |-> member, value |-> value]]
        /\ UNCHANGED <<learning_callback_mutex_, learning_callback_,
                       raw_learning_callback_>>
        /\ MutexOnly

\* The setter takes the mutex, which must be free.
SetterLock(c) ==
    /\ lockers[c].pc = "lock"
    /\ learning_callback_mutex_ = "free"
    /\ learning_callback_mutex_' = c
    /\ lockers' = [lockers EXCEPT ![c].pc = "assign"]
    /\ UNCHANGED <<learning_callback_, raw_learning_callback_>>
    /\ MutexOnly

\* The assignment begins: the member is neither the old nor the new function.
SetterAssignBegins(c) ==
    /\ lockers[c].pc = "assign"
    /\ IF lockers[c].member = "learning_callback_"
       THEN learning_callback_' = "torn" /\ UNCHANGED raw_learning_callback_
       ELSE raw_learning_callback_' = "torn" /\ UNCHANGED learning_callback_
    /\ lockers' = [lockers EXCEPT ![c].pc = "assigning"]
    /\ UNCHANGED learning_callback_mutex_
    /\ MutexOnly

\* The assignment ends and the setter returns.
SetterAssignEnds(c) ==
    /\ lockers[c].pc = "assigning"
    /\ IF lockers[c].member = "learning_callback_"
       THEN learning_callback_' = lockers[c].value
            /\ UNCHANGED raw_learning_callback_
       ELSE raw_learning_callback_' = lockers[c].value
            /\ UNCHANGED learning_callback_
    /\ learning_callback_mutex_' = ScopeEnd(learning_callback_mutex_, c)
    /\ lockers' = [lockers EXCEPT ![c] =
           [pc |-> "idle", member |-> "none", value |-> "null"]]
    /\ MutexOnly

\* ProcessIrTask, in learning mode: the scope of the copy is entered.
TaskLock ==
    /\ lockers.ir_task.pc = "idle"
    /\ learning_callback_mutex_ = "free"
    /\ learning_callback_mutex_' = "ir_task"
    /\ lockers' = [lockers EXCEPT !.ir_task.pc = "copy"]
    /\ UNCHANGED <<learning_callback_, raw_learning_callback_>>
    /\ MutexOnly

\* ProcessIrTask: the callbacks are copied and the scope ends.
TaskCopy ==
    /\ lockers.ir_task.pc = "copy"
    /\ lockers' = [lockers EXCEPT !.ir_task =
           [pc |-> "call", callback_copy |-> learning_callback_,
            raw_callback_copy |-> raw_learning_callback_]]
    /\ learning_callback_mutex_' = ScopeEnd(learning_callback_mutex_, "ir_task")
    /\ UNCHANGED <<learning_callback_, raw_learning_callback_>>
    /\ MutexOnly

\* ProcessIrTask: callback_copy is called if it is set.
TaskCall ==
    /\ lockers.ir_task.pc = "call"
    /\ lockers' = [lockers EXCEPT !.ir_task.pc =
           IF lockers.ir_task.callback_copy # "null" THEN "in_callback"
           ELSE "call_raw"]
    /\ UNCHANGED <<learning_callback_mutex_, learning_callback_,
                   raw_learning_callback_>>
    /\ MutexOnly

\* The learning callback returns; a setter it called has returned.
CallbackReturns ==
    /\ lockers.ir_task.pc = "in_callback"
    /\ lockers.callback.pc = "idle"
    /\ lockers' = [lockers EXCEPT !.ir_task.pc = "call_raw"]
    /\ UNCHANGED <<learning_callback_mutex_, learning_callback_,
                   raw_learning_callback_>>
    /\ MutexOnly

\* ProcessIrTask: raw_callback_copy is called if it is set, and returns; the
\* result is done with.
TaskCallRaw ==
    /\ lockers.ir_task.pc = "call_raw"
    /\ lockers' = [lockers EXCEPT !.ir_task =
           [pc |-> "idle", callback_copy |-> "null",
            raw_callback_copy |-> "null"]]
    /\ learning_callback_mutex_' = learning_callback_mutex_
    /\ UNCHANGED <<learning_callback_, raw_learning_callback_>>
    /\ MutexOnly

NextMutex ==
    \/ \E c \in {"callback", "setter"} : SetterEnter(c)
    \/ \E c \in {"callback", "setter"} : SetterLock(c)
    \/ \E c \in {"callback", "setter"} : SetterAssignBegins(c)
    \/ \E c \in {"callback", "setter"} : SetterAssignEnds(c)
    \/ TaskLock
    \/ TaskCopy
    \/ TaskCall
    \/ CallbackReturns
    \/ TaskCallRaw

SpecMutex == InitMutex /\ [][NextMutex]_vars

\* The thread a context runs in: the learning callback runs in the receive
\* task.
ThreadOf(c) == IF c = "setter" THEN "setter" ELSE "ir_task"

\* C28: the receive task never holds learning_callback_mutex_ while a
\* callback copy is called or waiting to be called; a setter that waits for
\* the mutex, in another context or inside the learning callback, waits for
\* a holder of another thread that is about to release it, so it never
\* waits for ever; and the copies the task calls are whole functions, the
\* old or the new, never one half assigned.
C28_CallbacksOutsideMutex ==
    /\ lockers.ir_task.pc \in {"call", "in_callback", "call_raw"} =>
           learning_callback_mutex_ # "ir_task"
    /\ \A c \in {"callback", "setter"} :
           (lockers[c].pc = "lock" /\ learning_callback_mutex_ # "free") =>
               /\ ThreadOf(learning_callback_mutex_) # ThreadOf(c)
               /\ \/ learning_callback_mutex_ = "ir_task"
                     /\ ENABLED TaskCopy
                  \/ learning_callback_mutex_ \in {"callback", "setter"}
                     /\ \/ ENABLED SetterAssignBegins(learning_callback_mutex_)
                        \/ ENABLED SetterAssignEnds(learning_callback_mutex_)
    /\ lockers.ir_task.callback_copy \in Callbacks
    /\ lockers.ir_task.raw_callback_copy \in Callbacks

\* The learning callback "first" is being called, and from inside it a
\* setter has replaced learning_callback_ by "second" and returned.
C28_Witness ==
    /\ lockers.ir_task.pc = "in_callback"
    /\ lockers.ir_task.callback_copy = "first"
    /\ lockers.callback.pc = "idle"
    /\ learning_callback_ = "second"
    /\ learning_callback_mutex_ = "free"

-----------------------------------------------------------------------------
(* The teardown of the xingzhi board: ~XINGZHI_CUBE_1_54TFT_WIFI in one     *)
(* context and ir_learn_task in its own, a step of either at a time.  The   *)
(* task is the lambda of InitializeIRReceiver with every load of            *)
(* shutting_down_ and every use of a member a step of its own.              *)

\* An order that deletes the queue before the flag is set.
DestructorStepsQueueFirst ==
    <<"delete_queue", "null_queue", "set_flag", "stop_receiver",
      "delete_receiver", "null_receiver", "await", "delete_semaphore",
      "null_semaphore">>

\* The statements of the destructor, in their order.
DestructorSteps ==
    <<"set_flag", "stop_receiver", "delete_receiver", "null_receiver",
      "delete_queue", "null_queue", "await", "delete_semaphore",
      "null_semaphore">>

\* The statement after step, "done" after the last.
After(step) ==
    LET i == CHOOSE k \in 1..Len(DestructorSteps) : DestructorSteps[k] = step
    IN  IF i = Len(DestructorSteps) THEN "done" ELSE DestructorSteps[i + 1]

\* The destructor moves on from step.
Made(step) ==
    destructor' = [pc |-> After(step), made |-> Append(destructor.made, step)]

InitTeardown ==
    /\ nvs = EmptyNvs
    /\ hasTx = FALSE
    /\ tx = << >>
    /\ ret = [op |-> "IrReceiver", name |-> EmptyStr, val |-> "void"]
    /\ steps = 0
    /\ StripIdle
    /\ TeardownIdle
    /\ MutexIdle
    /\ SaversIdle
    /\ RunIdle
    /\ ir_learning_active_ \in BOOLEAN
    /\ ir_learn_semaphore_ = "empty"
    /\ ir_command_queue_ \in
           {<< >>, <<[command |-> 16, protocol |-> "NEC"]>>,
            <<[command |-> 16, protocol |-> "NEC"],
              [command |-> 0, protocol |-> "UNKNOWN"]>>}
    /\ learned_command_ = 0
    /\ learned_protocol_ = ""
    /\ receiverRunning \in BOOLEAN
    /\ learn_command = [pc |-> "idle", remaining |-> 0, result |-> FALSE]
    /\ ir_learn_task = [pc |-> "loop", command |-> 0, protocol |-> "",
                        saw_shutdown |-> FALSE]
    /\ reply = [success |-> FALSE, error |-> "", protocol |-> ""]
    /\ arrived = FALSE
    /\ ReceiveIdle
    /\ board = "xingzhi"
    /\ learning_callback_ = FALSE
    /\ raw_learning_callback_ = FALSE
    /\ callback_ = FALSE

TeardownFrame ==
    UNCHANGED <<nvs, hasTx, tx, ret, steps, receiveVars, runVars, savers,
                mutexVars, stripVars, learn_command, reply, arrived>>

DestructorOnly ==
    UNCHANGED <<ir_learning_active_, ir_learn_semaphore_, learned_command_,
                learned_protocol_, faults>>

TaskOnly == UNCHANGED <<shutting_down_, destructor, members, receiverRunning>>

\* The board is destroyed.
DtorEnter ==
    /\ destructor.pc = "alive"
    /\ destructor' = [destructor EXCEPT !.pc = DestructorSteps[1]]
    /\ UNCHANGED <<shutting_down_, members, ir_command_queue_, ir_learn_task,
                   receiverRunning>>
    /\ DestructorOnly
    /\ TeardownFrame

\* shutting_down_.store(true)
DtorSetFlag ==
    /\ destructor.pc = "set_flag"
    /\ shutting_down_' = TRUE
    /\ Made("set_flag")
    /\ UNCHANGED <<members, ir_command_queue_, ir_learn_task, receiverRunning>>
    /\ DestructorOnly
    /\ TeardownFrame

\* ir_receiver_->Stop()
DtorStopReceiver ==
    /\ destructor.pc = "stop_receiver"
    /\ receiverRunning' = FALSE
    /\ Made("stop_receiver")
    /\ UNCHANGED <<shutting_down_, members, ir_command_queue_, ir_learn_task>>
    /\ DestructorOnly
    /\ TeardownFrame

\* delete m, vQueueDelete(m), vSemaphoreDelete(m): the object is gone, the
\* member still points to it.
DtorDelete(step, m) ==
    /\ destructor.pc = step
    /\ members' = [members EXCEPT ![m] = IF @ = "null" THEN "null" ELSE "dangling"]
    /\ ir_command_queue_' =
           IF m = "ir_command_queue_" THEN << >> ELSE ir_command_queue_
    /\ Made(step)
    /\ UNCHANGED <<shutting_down_, ir_learn_task, receiverRunning>>
    /\ DestructorOnly
    /\ TeardownFrame

\* m = nullptr
DtorNull(step, m) ==
    /\ destructor.pc = step
    /\ members' = [members EXCEPT ![m] = "null"]
    /\ Made(step)
    /\ UNCHANGED <<shutting_down_, ir_command_queue_, ir_learn_task,
                   receiverRunning>>
    /\ DestructorOnly
    /\ TeardownFrame

DtorDeleteReceiver == DtorDelete("delete_receiver", "ir_receiver_")

DtorNullReceiver == DtorNull("null_receiver", "ir_receiver_")

DtorDeleteQueue == DtorDelete("delete_queue", "ir_command_queue_")

DtorNullQueue == DtorNull("null_queue", "ir_command_queue_")

DtorDeleteSemaphore == DtorDelete("delete_semaphore", "ir_learn_semaphore_")

DtorNullSemaphore == DtorNull("null_semaphore", "ir_learn_semaphore_")

\* The wait for the task: the task has deleted itself, or 500 ms have
\* passed and it is deleted by force.
DtorAwait ==
    /\ destructor.pc = "await"
    /\ \/ /\ ir_learn_task.pc \in {"exited", "crashed"}
          /\ UNCHANGED ir_learn_task
       \/ /\ ir_learn_task.pc \notin {"exited", "crashed"}
          /\ ir_learn_task' = [ir_learn_task EXCEPT !.pc = "deleted"]
    /\ Made("await")
    /\ UNCHANGED <<shutting_down_, members, ir_command_queue_, receiverRunning>>
    /\ DestructorOnly
    /\ TeardownFrame

\* The task moves to pc, having read the flag as flag.
Goes(pc, flag) ==
    ir_learn_task' = [ir_learn_task EXCEPT
                         !.pc = pc, !.saw_shutdown = @ \/ flag]

TaskKeeps ==
    UNCHANGED <<ir_learning_active_, ir_learn_semaphore_, ir_command_queue_,
                learned_command_, learned_protocol_, faults>>

\* while (true): if (board->shutting_down_.load()) break;
LearnTaskLoop ==
    /\ ir_learn_task.pc = "loop"
    /\ Goes(IF shutting_down_ THEN "exited" ELSE "check_queue", shutting_down_)
    /\ TaskKeeps /\ TaskOnly /\ TeardownFrame

\* if (board->ir_command_queue_ == nullptr) break;
LearnTaskCheckQueue ==
    /\ ir_learn_task.pc = "check_queue"
    /\ Goes(IF members.ir_command_queue_ = "null" THEN "exited" ELSE "receive",
            FALSE)
    /\ TaskKeeps /\ TaskOnly /\ TeardownFrame

\* xQueueReceive(board->ir_command_queue_, ...) is called: on a live queue
\* the task waits in it; on a deleted queue or a null handle the behaviour
\* is undefined, and the call fails or the task is lost.
LearnTaskCallReceive ==
    /\ ir_learn_task.pc = "receive"
    /\ IF members.ir_command_queue_ = "live"
       THEN Goes("waiting", FALSE) /\ UNCHANGED faults
       ELSE /\ faults' = faults \cup {"ir_command_queue_"}
            /\ \E pc \in {"exited", "crashed"} : Goes(pc, FALSE)
    /\ UNCHANGED <<ir_learning_active_, ir_learn_semaphore_, ir_command_queue_,
                   learned_command_, learned_protocol_>>
    /\ TaskOnly /\ TeardownFrame

\* xQueueReceive returns the oldest event.  A task waiting on a queue that
\* is deleted is not woken.
LearnTaskReceive ==
    /\ ir_learn_task.pc = "waiting"
    /\ members.ir_command_queue_ = "live"
    /\ ir_command_queue_ # << >>
    /\ ir_learn_task' = [ir_learn_task EXCEPT
                            !.pc = "after_event",
                            !.command = Head(ir_command_queue_).command,
                            !.protocol = Head(ir_command_queue_).protocol]
    /\ ir_command_queue_' = Tail(ir_command_queue_)
    /\ UNCHANGED <<ir_learning_active_, ir_learn_semaphore_, learned_command_,
                   learned_protocol_, faults>>
    /\ TaskOnly /\ TeardownFrame

\* The check of shutting_down_ after the event.
LearnTaskAfterEvent ==
    /\ ir_learn_task.pc = "after_event"
    /\ Goes(IF shutting_down_ THEN "exited" ELSE "load_active", shutting_down_)
    /\ TaskKeeps /\ TaskOnly /\ TeardownFrame

\* if (board->ir_learning_active_.load())
LearnTaskLoadActive ==
    /\ ir_learn_task.pc = "load_active"
    /\ Goes(IF ir_learning_active_ THEN "check_receiver" ELSE "loop", FALSE)
    /\ TaskKeeps /\ TaskOnly /\ TeardownFrame

\* if (board->ir_receiver_ != nullptr && !board->shutting_down_.load())
LearnTaskCheckReceiver ==
    /\ ir_learn_task.pc = "check_receiver"
    /\ Goes(IF members.ir_receiver_ # "null" /\ ~shutting_down_
            THEN "get_raw" ELSE "check_store",
            members.ir_receiver_ # "null" /\ shutting_down_)
    /\ TaskKeeps /\ TaskOnly /\ TeardownFrame

\* raw_data = board->ir_receiver_->GetRawData(): on a receiver that is
\* deleted the behaviour is undefined; the call returns or the task is lost.
LearnTaskGetRawData ==
    /\ ir_learn_task.pc = "get_raw"
    /\ IF members.ir_receiver_ = "live"
       THEN Goes("check_store", FALSE) /\ UNCHANGED faults
       ELSE /\ faults' = faults \cup {"ir_receiver_"}
            /\ \E pc \in {"check_store", "crashed"} : Goes(pc, FALSE)
    /\ UNCHANGED <<ir_learning_active_, ir_learn_semaphore_, ir_command_queue_,
                   learned_command_, learned_protocol_>>
    /\ TaskOnly /\ TeardownFrame

\* if (!board->shutting_down_.load()), before the update
LearnTaskCheckStore ==
    /\ ir_learn_task.pc = "check_store"
    /\ Goes(IF shutting_down_ THEN "loop" ELSE "store", shutting_down_)
    /\ TaskKeeps /\ TaskOnly /\ TeardownFrame

\* learned_command_, learned_protocol_, ir_learning_active_.store(false)
LearnTaskStore ==
    /\ ir_learn_task.pc = "store"
    /\ learned_command_' = ir_learn_task.command
    /\ learned_protocol_' = ir_learn_task.protocol
    /\ ir_learning_active_' = FALSE
    /\ Goes("give", FALSE)
    /\ UNCHANGED <<ir_learn_semaphore_, ir_command_queue_, faults>>
    /\ TaskOnly /\ TeardownFrame

\* if (board->ir_learn_semaphore_ != nullptr) xSemaphoreGive(...), then the
\* notification, and the loop again.
LearnTaskGive ==
    /\ ir_learn_task.pc = "give"
    /\ IF members.ir_learn_semaphore_ = "live"
       THEN ir_learn_semaphore_' = "given" /\ UNCHANGED faults
       ELSE IF members.ir_learn_semaphore_ = "null"
       THEN UNCHANGED <<ir_learn_semaphore_, faults>>
       ELSE /\ faults' = faults \cup {"ir_learn_semaphore_"}
            /\ UNCHANGED ir_learn_semaphore_
    /\ Goes("loop", FALSE)
    /\ UNCHANGED <<ir_learning_active_, ir_command_queue_, learned_command_,
                   learned_protocol_>>
    /\ TaskOnly /\ TeardownFrame

NextTeardown ==
    \/ DtorEnter
    \/ DtorSetFlag
    \/ DtorStopReceiver
    \/ DtorDeleteReceiver
    \/ DtorNullReceiver
    \/ DtorDeleteQueue
    \/ DtorNullQueue
    \/ DtorAwait
    \/ DtorDeleteSemaphore
    \/ DtorNullSemaphore
    \/ LearnTaskLoop
    \/ LearnTaskCheckQueue
    \/ LearnTaskCallReceive
    \/ LearnTaskReceive
    \/ LearnTaskAfterEvent
    \/ LearnTaskLoadActive
    \/ LearnTaskCheckReceiver
    \/ LearnTaskGetRawData
    \/ LearnTaskCheckStore
    \/ LearnTaskStore
    \/ LearnTaskGive

SpecTeardown == InitTeardown /\ [][NextTeardown]_vars

\* C29: in every interleaving of the destructor with the worker, the worker
\* uses ir_receiver_ (GetRawData), the command queue and the semaphore only
\* while they are live, never after the destructor has deleted them.
C29_TeardownMemorySafe == faults = {}

\* C30: the destructor sets the flag, then stops and deletes the receiver,
\* then deletes the queue, then awaits the worker, then deletes the
\* semaphore; and once the flag is set, a worker that checks it at the top
\* of its loop or after an event exits, and a worker that has read it as set
\* updates no learned state, gives no semaphore and calls no GetRawData.
C30_TeardownOrder ==
    [][/\ \E n \in 0..9 :
              destructor'.made =
                  SubSeq(<<"set_flag", "stop_receiver", "delete_receiver",
                           "null_receiver", "delete_queue", "null_queue",
                           "await", "delete_semaphore", "null_semaphore">>, 1, n)
       /\ destructor'.made # << >> => shutting_down_'
       /\ (shutting_down_ /\ ir_learn_task.pc \in {"loop", "after_event"}
             /\ ir_learn_task' # ir_learn_task) =>
              /\ ir_learn_task'.pc \in {"exited", "deleted"}
              /\ UNCHANGED <<learned_command_, learned_protocol_,
                             ir_learning_active_, ir_learn_semaphore_>>
       /\ ir_learn_task.saw_shutdown =>
              /\ ir_learn_task'.pc \in {"check_store", "loop", "exited", "deleted"}
              /\ UNCHANGED <<learned_command_, learned_protocol_,
                             ir_learning_active_, ir_learn_semaphore_>>]_vars

\* The teardown is complete and the worker, which held an event of an
\* active session when the flag was set, has exited at its check with the
\* learned state as it was.
C30_Witness ==
    /\ destructor.pc = "done"
    /\ Len(destructor.made) = 9
    /\ ir_learn_task.pc = "exited"
    /\ ir_learn_task.saw_shutdown
    /\ ir_learn_task.command = 16
    /\ ir_learning_active_
    /\ learned_command_ = 0
    /\ members = [ir_receiver_ |-> "null", ir_command_queue_ |-> "null",
                  ir_learn_semaphore_ |-> "null"]
-----------------------------------------------------------------------------
(* The learned result of a session: which call a success belongs to, and   *)
(* which context touches learned_command_, learned_protocol_ and            *)
(* learned_raw_data_ when (SpecLearn).                                      *)

\* C31: a learn_command that returns success:true returns what the worker
\* stored for it: a semaphore given, or an event queued, during an earlier
\* call never makes a later call return success with the learned data as
\* the reset left them (empty protocol, zero command).
C31_SuccessIsOwnCapture ==
    [][(Returns /\ reply'.success) =>
         /\ reply'.protocol # ""
         /\ reply'.protocol = learned_protocol_'
         /\ ~(learned_protocol_' = "" /\ learned_command_' = 0)]_vars

\* A step in which learn_command resets the learned members (lines 365-367).
HandlerResets == learn_command.pc = "idle" /\ learn_command'.pc = "start"

\* A step in which learn_command reads the learned members (lines 535-549).
HandlerReads == Returns /\ learn_command.pc = "return" /\ learn_command.result

\* The worker has loaded ir_learning_active_ as true (line 279) and has not
\* yet completed its writes of the learned members (lines 294-296).
WorkerWrites == ir_learn_task.pc = "store"

\* C32: the learned members are never accessed by two contexts at once: the
\* worker writes them only while ir_learning_active_ is set, and
\* learn_command neither resets nor reads them while the worker is between
\* its load of ir_learning_active_ and the end of its writes.
C32_LearnedFieldsExclusive ==
    [][/\ (WorkerWrites /\ ir_learn_task'.pc = "give") => ir_learning_active_
       /\ HandlerResets => ~WorkerWrites
       /\ HandlerReads => ~WorkerWrites]_vars
-----------------------------------------------------------------------------
(* The two delivery paths of ProcessIrTask (SpecReceive).                  *)

-----------------------------------------------------------------------------
(* The LED during self.ir.learn_command (xingzhi-cube-1.54tft-wifi.cc) and *)
(* the operations of CircularStrip (main/led/circular_strip.cc).  The tool  *)
(* disables the LED, runs the receiver and re-enables the LED; the          *)
(* application task calls strip operations and the esp_timer task runs the  *)
(* strip timer's callback at any moment.  A block under                     *)
(* std::lock_guard lock(mutex_) is one step.                                *)

\* What GetLed() can return.
LedKinds == {"null", "NoLed", "SingleLed", "CircularStrip"}

\* The contexts that call strip operations.
StripCallers == {"learn_command", "application"}

\* The returns of learn_command whose path re-enables the LED but for the
\* one taken when the semaphore is missing.
ReenablePathsButSemaphore == {ErrStart, ""}

\* The returns of learn_command whose path holds the block
\* if (led_was_enabled) { ... Enable(); ... OnStateChanged(); }: the one
\* after the receiver failed to start, the one after the semaphore was
\* found missing, and the one after the wait (success and timeout).
ReenablePaths == {ErrStart, ErrSemaphore, ""}

InitStrip ==
    /\ nvs = EmptyNvs
    /\ hasTx = FALSE
    /\ tx = << >>
    /\ ret = [op |-> "IrReceiver", name |-> EmptyStr, val |-> "void"]
    /\ steps = 0
    /\ TeardownIdle
    /\ MutexIdle
    /\ SaversIdle
    /\ RunIdle
    /\ ReceiveIdle
    /\ board = "xingzhi"
    /\ learning_callback_ = FALSE
    /\ raw_learning_callback_ = FALSE
    /\ callback_ = FALSE
    /\ ir_learning_active_ = FALSE
    /\ ir_learn_semaphore_ \in {"null", "empty"}
    /\ ir_command_queue_ = << >>
    /\ learned_command_ = 0
    /\ learned_protocol_ = ""
    /\ receiverRunning = FALSE
    /\ learn_command = [pc |-> "idle", result |-> FALSE, error |-> ""]
    /\ ir_learn_task = [pc |-> "receive", command |-> 0, protocol |-> ""]
    /\ reply = [success |-> FALSE, error |-> "", protocol |-> ""]
    /\ arrived = FALSE
    /\ led \in LedKinds
    /\ led_strip_ = "handle"
    /\ strip_timer_ = FALSE
    /\ strip_callback_ = "null"
    /\ strip = [learn_command |-> [pc |-> "none", cb |-> "null"],
                application |-> [pc |-> "none", cb |-> "null"],
                esp_timer |-> [pc |-> "idle", cb |-> "null"]]
    /\ led_was_enabled = FALSE
    /\ led_calls = << >>
    /\ null_handed = {}

StripFrame ==
    UNCHANGED <<nvs, hasTx, tx, ret, steps, receiveVars, runVars, savers,
                mutexVars, teardownVars, led, ir_learn_semaphore_,
                ir_command_queue_, ir_learn_task, arrived>>

\* The steps of learn_command leave these alone.
HandlerOnly == UNCHANGED <<strip_callback_, null_handed>>

\* The steps of the strip operations leave these alone.
StripOnly ==
    UNCHANGED <<ir_learning_active_, learned_command_, learned_protocol_,
                receiverRunning, learn_command, reply, led_was_enabled,
                led_calls>>

\* The driver is handed led_strip_ by an operation.
Handed(operation) ==
    IF led_strip_ = "null" THEN null_handed \cup {operation}
    ELSE null_handed

\* learn_command, from its entry to the store of ir_learning_active_.
LedArm ==
    /\ learn_command.pc = "idle"
    /\ learned_command_' = 0
    /\ learned_protocol_' = ""
    /\ ir_learning_active_' = TRUE
    /\ learn_command' = [pc |-> "disable", result |-> FALSE, error |-> ""]
    /\ led_was_enabled' = FALSE
    /\ led_calls' = << >>
    /\ UNCHANGED <<receiverRunning, reply, led_strip_, strip_timer_, strip>>
    /\ HandlerOnly
    /\ StripFrame

\* learn_command: GetLed(), the casts and Disable().  CircularStrip's
\* Disable() stops the timer and deletes the strip under the mutex.
LedDisable ==
    /\ learn_command.pc = "disable"
    /\ learn_command' = [learn_command EXCEPT !.pc = "start"]
    /\ IF led \in {"SingleLed", "CircularStrip"}
       THEN /\ led_was_enabled' = TRUE
            /\ led_calls' = Append(led_calls, "Disable")
       ELSE UNCHANGED <<led_was_enabled, led_calls>>
    /\ IF led = "CircularStrip" /\ led_strip_ # "null"
       THEN /\ strip_timer_' = FALSE
            /\ led_strip_' = "null"
       ELSE UNCHANGED <<strip_timer_, led_strip_>>
    /\ UNCHANGED <<ir_learning_active_, learned_command_, learned_protocol_,
                   receiverRunning, reply, strip>>
    /\ HandlerOnly
    /\ StripFrame

\* learn_command: Stop(), Start(), a second Start() if the first failed,
\* and the test of IsRunning().
LedStartReceiver ==
    \E started \in BOOLEAN :
        /\ learn_command.pc = "start"
        /\ receiverRunning' = started
        /\ IF started
           THEN /\ learn_command' = [learn_command EXCEPT !.pc = "semaphore"]
                /\ UNCHANGED ir_learning_active_
           ELSE /\ ir_learning_active_' = FALSE
                /\ learn_command' = [learn_command EXCEPT !.pc = "enable",
                                                          !.error = ErrStart]
        /\ UNCHANGED <<learned_command_, learned_protocol_, reply,
                       led_strip_, strip_timer_, strip, led_was_enabled,
                       led_calls>>
        /\ HandlerOnly
        /\ StripFrame

\* learn_command: the test of ir_learn_semaphore_; Stop() if it is null.
LedCheckSemaphore ==
    /\ learn_command.pc = "semaphore"
    /\ IF ir_learn_semaphore_ = "null"
       THEN /\ receiverRunning' = FALSE
            /\ ir_learning_active_' = FALSE
            /\ learn_command' = [learn_command EXCEPT !.pc = "enable",
                                                      !.error = ErrSemaphore]
       ELSE /\ learn_command' = [learn_command EXCEPT !.pc = "wait"]
            /\ UNCHANGED <<receiverRunning, ir_learning_active_>>
    /\ UNCHANGED <<learned_command_, learned_protocol_, reply, led_strip_,
                   strip_timer_, strip, led_was_enabled, led_calls>>
    /\ HandlerOnly
    /\ StripFrame

\* learn_command: the wait loop ends with the semaphore taken (the worker
\* has cleared ir_learning_active_, or left it, for a semaphore given
\* earlier) or with the timeout, and Stop() is called.
LedWaitAndStop ==
    \E taken \in BOOLEAN :
        /\ learn_command.pc = "wait"
        /\ learn_command' = [learn_command EXCEPT !.pc = "enable",
                                                  !.result = taken]
        /\ ir_learning_active_' \in
               IF taken THEN {FALSE, ir_learning_active_}
               ELSE {ir_learning_active_}
        /\ receiverRunning' = FALSE
        /\ UNCHANGED <<learned_command_, learned_protocol_, reply,
                       led_strip_, strip_timer_, strip, led_was_enabled,
                       led_calls>>
        /\ HandlerOnly
        /\ StripFrame

\* learn_command: if (led_was_enabled) with GetLed(), the casts and
\* Enable().  CircularStrip's Enable() makes a new strip under the mutex if
\* there is none; led_strip_new_rmt_device can fail, and Enable() then
\* returns with led_strip_ as it was.
LedEnable ==
    \E esp_ok \in BOOLEAN :
        /\ learn_command.pc = "enable"
        /\ IF /\ led_was_enabled
              /\ led # "null"
              /\ learn_command.error \in ReenablePaths
           THEN /\ learn_command' = [learn_command EXCEPT !.pc = "state"]
                /\ IF led = "CircularStrip" /\ led_strip_ = "null"
                   THEN /\ led_strip_' = IF esp_ok THEN "handle" ELSE "null"
                        /\ led_calls' =
                               Append(led_calls,
                                      IF esp_ok THEN "Enable"
                                      ELSE "Enable (no strip made)")
                   ELSE /\ esp_ok
                        /\ led_calls' = Append(led_calls, "Enable")
                        /\ UNCHANGED led_strip_
           ELSE /\ esp_ok
                /\ learn_command' = [learn_command EXCEPT !.pc = "return"]
                /\ UNCHANGED <<led_strip_, led_calls>>
        /\ UNCHANGED <<ir_learning_active_, learned_command_,
                       learned_protocol_, receiverRunning, reply,
                       strip_timer_, strip, led_was_enabled>>
        /\ HandlerOnly
        /\ StripFrame

\* learn_command: led->OnStateChanged().  CircularStrip's OnStateChanged()
\* calls SetAllColor or Blink for the device state, or returns for a state
\* it does not know.
LedOnStateChanged ==
    \E operation \in {"SetAllColor", "Blink", "none"} :
        /\ learn_command.pc = "state"
        /\ learn_command' = [learn_command EXCEPT !.pc = "return"]
        /\ led_calls' = Append(led_calls, "OnStateChanged")
        /\ IF led = "CircularStrip"
           THEN strip' =
                    [strip EXCEPT !.learn_command =
                        IF operation = "Blink"
                        THEN [pc |-> "StartStripTask", cb |-> "Blink"]
                        ELSE [pc |-> operation, cb |-> "null"]]
           ELSE /\ operation = "none"
                /\ UNCHANGED strip
        /\ UNCHANGED <<ir_learning_active_, learned_command_,
                       learned_protocol_, receiverRunning, reply,
                       led_strip_, strip_timer_, led_was_enabled>>
        /\ HandlerOnly
        /\ StripFrame

\* learn_command returns its JSON; the return after a timeout stores
\* ir_learning_active_.
LedReturn ==
    /\ learn_command.pc = "return"
    /\ strip.learn_command.pc = "none"
    /\ learn_command' = [learn_command EXCEPT !.pc = "idle"]
    /\ IF learn_command.error # ""
       THEN /\ reply' = [success |-> FALSE, error |-> learn_command.error,
                         protocol |-> ""]
            /\ UNCHANGED ir_learning_active_
       ELSE IF learn_command.result
       THEN /\ reply' = [success |-> TRUE, error |-> "",
                         protocol |-> learned_protocol_]
            /\ UNCHANGED ir_learning_active_
       ELSE /\ ir_learning_active_' = FALSE
            /\ reply' = [success |-> FALSE, error |-> ErrTimeout,
                         protocol |-> ""]
    /\ UNCHANGED <<learned_command_, learned_protocol_, receiverRunning,
                   led_strip_, strip_timer_, strip, led_was_enabled,
                   led_calls>>
    /\ HandlerOnly
    /\ StripFrame

\* The application task calls SetAllColor, SetSingleColor, Blink or Breathe
\* (directly or through OnStateChanged).
ApplicationCall ==
    \E operation \in {"SetAllColor", "SetSingleColor", "Blink", "Breathe"} :
        /\ led = "CircularStrip"
        /\ strip.application.pc = "none"
        /\ strip' =
               [strip EXCEPT !.application =
                   IF operation \in {"Blink", "Breathe"}
                   THEN [pc |-> "StartStripTask", cb |-> operation]
                   ELSE [pc |-> operation, cb |-> "null"]]
        /\ UNCHANGED <<led_strip_, strip_timer_, strip_callback_,
                       null_handed>>
        /\ StripOnly
        /\ StripFrame

\* CircularStrip::SetAllColor and SetSingleColor: under the mutex the timer
\* is stopped and led_strip_ is handed to led_strip_set_pixel and
\* led_strip_refresh.
SetColor(c) ==
    /\ strip[c].pc \in {"SetAllColor", "SetSingleColor"}
    /\ strip_timer_' = FALSE
    /\ null_handed' = Handed(strip[c].pc)
    /\ strip' = [strip EXCEPT ![c] = [pc |-> "none", cb |-> "null"]]
    /\ UNCHANGED <<led_strip_, strip_callback_>>
    /\ StripOnly
    /\ StripFrame

\* CircularStrip::StartStripTask: the test of led_strip_, made before the
\* mutex is taken.
StartStripTaskTest(c) ==
    /\ strip[c].pc = "StartStripTask"
    /\ strip' = [strip EXCEPT ![c] =
                    IF led_strip_ = "null" THEN [pc |-> "none", cb |-> "null"]
                    ELSE [@ EXCEPT !.pc = "lock_guard"]]
    /\ UNCHANGED <<led_strip_, strip_timer_, strip_callback_, null_handed>>
    /\ StripOnly
    /\ StripFrame

\* CircularStrip::StartStripTask: under the mutex the callback is stored
\* and the periodic timer started.
StartStripTask(c) ==
    /\ strip[c].pc = "lock_guard"
    /\ strip_callback_' = strip[c].cb
    /\ strip_timer_' = TRUE
    /\ strip' = [strip EXCEPT ![c] = [pc |-> "none", cb |-> "null"]]
    /\ UNCHANGED <<led_strip_, null_handed>>
    /\ StripOnly
    /\ StripFrame

\* The period of the started timer elapses: the esp_timer task enters the
\* timer's callback, whose first statement takes the mutex.
TimerFires ==
    /\ strip_timer_
    /\ strip.esp_timer.pc = "idle"
    /\ strip' = [strip EXCEPT !.esp_timer.pc = "lock_guard"]
    /\ UNCHANGED <<led_strip_, strip_timer_, strip_callback_, null_handed>>
    /\ StripOnly
    /\ StripFrame

\* The timer's callback, under the mutex: strip_callback_ is called if it
\* is set.  The lambda of Blink hands led_strip_ to the driver; the lambda
\* of Breathe returns if led_strip_ is null.
TimerCallback ==
    /\ strip.esp_timer.pc = "lock_guard"
    /\ null_handed' = IF strip_callback_ = "Blink" THEN Handed("Blink")
                      ELSE null_handed
    /\ strip' = [strip EXCEPT !.esp_timer.pc = "idle"]
    /\ UNCHANGED <<led_strip_, strip_timer_, strip_callback_>>
    /\ StripOnly
    /\ StripFrame

NextStrip ==
    \/ LedArm
    \/ LedDisable
    \/ LedStartReceiver
    \/ LedCheckSemaphore
    \/ LedWaitAndStop
    \/ LedEnable
    \/ LedOnStateChanged
    \/ LedReturn
    \/ ApplicationCall
    \/ \E c \in StripCallers : SetColor(c)
    \/ \E c \in StripCallers : StartStripTaskTest(c)
    \/ \E c \in StripCallers : StartStripTask(c)
    \/ TimerFires
    \/ TimerCallback

SpecStrip == InitStrip /\ [][NextStrip]_vars

\* The calls of Disable and Enable among the calls made on the LED.
SwitchCalls ==
    SelectSeq(led_calls, LAMBDA call : call # "OnStateChanged")

C35_DisabledStripUntouched ==
    /\ null_handed = {}
    /\ led_strip_ = "null" => ~strip_timer_
-----------------------------------------------------------------------------
(* The receive task over Start() and Stop() (SpecRun).                     *)

\* C36: when Stop() has returned, the task created by the preceding Start()
\* has left its loop and deleted itself, so that at most one
\* ir_receiver_task is alive at any time and ~IrReceiver, which calls
\* Stop() and then deletes irrecv_, deletes it with no task left to call
\* decode() or resume().
C36_StopJoinsTask ==
    /\ Cardinality(live) <= 1
    /\ (run.pc = "idle" /\ run.op = "Stop") => live = {}
-----------------------------------------------------------------------------
(* What the save path and the send path take for a valid raw code          *)
(* (SpecReplay).                                                            *)

\* SaveRawCode(name, raw_data, raw_len) stores the capture: it takes none
\* of its returns before settings.SetString(raw_key, raw_str).
SaveRawCodeAccepts(name, raw) ==
    /\ ~raw.null
    /\ raw.len >= 1
    /\ MakeKey(RawPrefix, Truncate(name), LONG_KEY_SIZE).ok
    /\ Len(FormatRaw(raw.data, raw.len)) <= RAW_STR_LIMIT

\* C37: every raw sequence SaveRawCode accepts and stores (raw_len at least
\* 1, a record of at most 3900 bytes) is accepted by SendLearnedRawCode,
\* which with a transmitter returns true and passes all raw_len durations
\* to sendRaw: no length the save path allows is refused by the send path.
C37_SaveSendAgree ==
    [][(ret'.op = "SaveRawCode" /\ SaveRawCodeAccepts(ret'.name, ret'.arg)) =>
         \A sent \in {SendLearnedRawCode(nvs', TRUE, ret'.name)} :
             /\ sent.ret
             /\ Len(sent.tx) = 1
             /\ sent.tx[1].kind = "raw"
             /\ Len(sent.tx[1].data) = ret'.arg.len]_vars
-----------------------------------------------------------------------------
(* The default names of learning mode (SpecReceive).                       *)

\* The calls ProcessIrTask of a board makes on the learning callback for a
\* result decoded in learning mode with the callbacks set.
DefaultNamed(b, r) ==
    CallsOn(IF b = "zhengchen" THEN ZhengchenCalls(r, TRUE, TRUE, FALSE)
            ELSE XingzhiCalls(r, TRUE, TRUE, TRUE, FALSE),
            "learning_callback_")

\* C38: the default names given in learning mode are free of collisions:
\* a command passed to the learning callback shares its default name with
\* no command of another protocol, value or bit count, and the save made
\* for it (zhengchen start_learning) replaces no record of another command
\* learned earlier.
C38_DefaultNamesDistinct ==
    [][Processed =>
         \A i \in DOMAIN CallsOn(delivered', "learning_callback_") :
             \A c \in {CallsOn(delivered', "learning_callback_")[i]} :
                 /\ \A r \in DecodeResults :
                      \A j \in DOMAIN DefaultNamed(board, r) :
                          DefaultNamed(board, r)[j].name = c.name =>
                              DefaultNamed(board, r)[j] = c
                 /\ (/\ board = "zhengchen"
                     /\ (CodePrefix \o c.name) \in DOMAIN nvs) =>
                        nvs[CodePrefix \o c.name] =
                            FormatCode(c.protocol, c.value, c.bits)]_vars
-----------------------------------------------------------------------------
(* Saves that do not complete (Spec).                                      *)

\* SaveLearnedCode(name, ...) does not complete on namespace s: the key
\* cannot be built, or the name is not in code_list and code_list holds
\* MAX_IR_CODES names.
SaveLearnedCodeFails(s, name) ==
    \/ ~MakeKey(CodePrefix, Truncate(name), CODE_KEY_SIZE).ok
    \/ /\ ~NameExists(IndexNames(s), Truncate(name))
       /\ CodeCount(IndexNames(s)) >= MAX_IR_CODES

\* C39: a save that does not complete leaves the namespace as it was: when
\* SaveLearnedCode fails (capacity reached for a new name, key not built)
\* or SaveRawCode fails (raw data null or empty, key not built, record too
\* large), no key of ir_codes has been created or modified.
C39_FailedSaveChangesNothing ==
    [][/\ (/\ ret'.op = "SaveLearnedCode"
           /\ steps' # steps
           /\ SaveLearnedCodeFails(nvs, ret'.name)) => nvs' = nvs
       /\ (/\ ret'.op = "SaveRawCode"
           /\ steps' # steps
           /\ ~SaveRawCodeAccepts(ret'.name, ret'.arg)) => nvs' = nvs]_vars
-----------------------------------------------------------------------------
(* The order of the index and what a delete leaves alone (Spec).           *)

\* The names of a sequence other than those that, cut to max_name_length,
\* are truncated_name, in their order.
Others(names, truncated_name) ==
    SelectSeq(names, LAMBDA code_name : Truncate(code_name) # truncated_name)

\* The keys a delete or a save of name may touch.
OwnKeys(name) ==
    {CodePrefix \o Truncate(name), RawPrefix \o Truncate(name), CodeListKey}

\* Namespace after holds every key of before outside keys with its value,
\* and no key that before does not hold outside keys.
SameOutside(before, after, keys) ==
    /\ \A key \in DOMAIN before \ keys :
           key \in DOMAIN after /\ after[key] = before[key]
    /\ DOMAIN after \ keys \subseteq DOMAIN before

\* C40: code_list keeps the names in the order of their first save: a save
\* leaves the listed names where they are and at most appends its name at
\* the end (a name already listed is not moved); DeleteLearnedCode(name)
\* that returns true leaves the records of every other name as they were
\* and the other names of code_list in their order; one that returns false
\* changes nothing.
C40_IndexOrderAndFrame ==
    [][steps' # steps =>
         /\ ret'.op \in {"SaveLearnedCode", "SaveRawCode"} =>
                /\ IndexNames(nvs') \in
                       {IndexNames(nvs),
                        Append(IndexNames(nvs), Truncate(ret'.name))}
                /\ NameExists(IndexNames(nvs), Truncate(ret'.name)) =>
                       IndexNames(nvs') = IndexNames(nvs)
                /\ SameOutside(nvs, nvs', OwnKeys(ret'.name))
         /\ (ret'.op = "DeleteLearnedCode" /\ ret'.val = FALSE) => nvs' = nvs
         /\ (ret'.op = "DeleteLearnedCode" /\ ret'.val = TRUE) =>
                /\ IndexNames(nvs') =
                       Others(IndexNames(nvs), Truncate(ret'.name))
                /\ SameOutside(nvs, nvs', OwnKeys(ret'.name))]_vars


=============================================================================
